---- MODULE Spec2Model ----
(***************************************************************************)
(* The gameweek leaderboard / transfer engine of src/api/index.py:         *)
(* get_user_roster, calculate_transfers, analyze_player_frequency,         *)
(* generate_leaderboard and the loop of process_all_gameweeks.             *)
(* Spec runs the gameweek engine; MatchSpec runs the match scoring         *)
(* (calculate_score, calculate_player_scores_for_match) and process_match; *)
(* SummarySpec runs get_match_summary_json.                                *)
(*                                                                         *)
(* Representation.                                                         *)
(*   - A roster record (a JSON object) is a function from field names to   *)
(*     values; a key the object lacks is outside its DOMAIN.  The empty    *)
(*     object is the function with the empty domain.                       *)
(*   - A JSON null list entry is NoneRoster; a JSON null slot is None.     *)
(*   - Scores are floats in the source.  They are held here as integers   *)
(*     counting hundredths (1025 is 10.25); the score pools hold multiples *)
(*     of 0.25 only, which binary floats represent exactly, so that sums,  *)
(*     differences and round(x, 1) are exact.  A value rounded to one      *)
(*     decimal is held as an integer counting tenths (102 is 10.2).        *)
(*   - A gameweek name is the tuple of its characters, so that lower(),    *)
(*     the 'playoff' substring test and the digit filter are computed.     *)
(***************************************************************************)
EXTENDS Integers, Sequences, FiniteSets, TLC

VARIABLES
    directory,          \* the state of the store directory on disk
    store,              \* the directory: <<[name, data]>> in os.listdir order
    hash_order,         \* iteration order of a set of strings in this process
    pc,                 \* position in process_all_gameweeks
    gameweek_data,      \* what load_json_files returned (insertion order)
    sorted_gameweeks,   \* line 651
    idx,                \* position of the for loop of line 658
    previous_gw_data,   \* line 652 / 700
    leaderboards,       \* line 654
    transfers,          \* line 655
    stages,             \* line 656
    result,             \* the returned value
    calls,              \* per processed gameweek: the locals rosters,
                        \* previous_gw_data and transfer_data of its iteration
    match_data,         \* what the provider returned for matches/<id>
    match_stats,        \* what the provider returned for matches/<id>/stats
    provider,           \* the provider's answers to players/<id>
    match_pc,           \* position in calculate_player_scores_for_match, or
                        \* in process_match
    match_summary,      \* line 226 / line 353
    scores,             \* the value returned at line 237 / line 350
    report,             \* what process_match returned
    provider_calls,     \* the calls process_match made to the provider, and
                        \* those of them that failed
    response            \* what get_match_summary_json returned

match_vars == <<match_data, match_stats, provider, match_pc, match_summary, scores,
                report, provider_calls, response>>

vars == <<directory, store, hash_order, pc, gameweek_data, sorted_gameweeks, idx,
          previous_gw_data, leaderboards, transfers, stages, result, calls,
          match_data, match_stats, provider, match_pc, match_summary, scores,
          report, provider_calls, response>>

----------------------------------------------------------------------------
(* Bounds of the model *)

MaxRosters == 2

MaxGameweeks == 3

MaxRounds == 2

----------------------------------------------------------------------------
(* Values *)

None == "<None>"

Unknown == "Unknown"

\* a slot value that is no string: a non-empty JSON array, which is truthy,
\* differs from every string and cannot be hashed
Unhashable == "<list>"

NoneValue == [is_none |-> TRUE]

NoneRoster == NoneValue

EmptyDict == <<>>

\* previous_gw_data = None.  Every use of previous_gw_data is a truthiness
\* test (lines 421, 554, 678), under which None and [] are the same.
NoData == <<>>

Null == <<>>

Some(v) == <<v>>

SlotFields == <<"tank", "dpsOne", "dpsTwo", "supportOne", "supportTwo">>

RoleOfField(field) ==
    IF field = "tank" THEN "tank"
    ELSE IF field \in {"dpsOne", "dpsTwo"} THEN "dps"
    ELSE "support"

\* Python truthiness of a list entry: None and {} are falsy.
Truthy(roster) == roster /= NoneRoster /\ DOMAIN roster /= {}

\* Python truthiness of a string.
TruthyStr(s) == s /= ""

IsPlayerNameNoSentinel(player) == TruthyStr(player)

\* `player and player != "Unknown"` (lines 451, 457, 490; negated at 498)
IsPlayerName(player) == TruthyStr(player) /\ player /= Unknown

\* round-half-to-even of n / d for d > 0 (\div and % floor, as Python's // and %).
RoundHalfEven(n, d) ==
    LET q == n \div d
        r == n % d
    IN  IF 2 * r < d THEN q
        ELSE IF 2 * r > d THEN q + 1
        ELSE IF q % 2 = 0 THEN q ELSE q + 1

\* round(x, 1) of a float held in hundredths; the result counts tenths.
Round1(x) == RoundHalfEven(x, 10)

\* float(x.get("score", 0))
ScoreOf(roster) == IF "score" \in DOMAIN roster THEN roster["score"] ELSE 0

\* The players of the pools in ascending order of Python's str comparison
\* (code points: "" < "P1" < ... < "P5" < "Unknown").
PlayerOrder == <<"", "P1", "P2", "P3", "P4", "P5", "Unknown">>

StrIndex(s) == CHOOSE i \in 1..Len(PlayerOrder) : PlayerOrder[i] = s

\* a < b on player names
StrLess(a, b) == StrIndex(a) < StrIndex(b)

\* list(s) for a set of strings: the elements in the set's iteration order.
RECURSIVE ListInOrder(_, _)
ListInOrder(s, order) ==
    IF order = <<>> THEN <<>>
    ELSE IF Head(order) \in s
         THEN <<Head(order)>> \o ListInOrder(s, Tail(order))
         ELSE ListInOrder(s, Tail(order))

ListOfSet(s) == ListInOrder(s, hash_order)

\* sorted(items, key=..., reverse=True) on a list of <<key, item>> pairs:
\* descending by key, equal keys keep their input order (Python's sort is
\* stable, also under reverse=True).
RECURSIVE InsertDescTiesReversed(_, _)
InsertDescTiesReversed(sorted, pair) ==
    IF sorted = <<>> THEN <<pair>>
    ELSE IF Head(sorted)[1] > pair[1]
         THEN <<Head(sorted)>> \o InsertDescTiesReversed(Tail(sorted), pair)
         ELSE <<pair>> \o sorted

RECURSIVE InsertDesc(_, _)
InsertDesc(sorted, pair) ==
    IF sorted = <<>> THEN <<pair>>
    ELSE IF Head(sorted)[1] >= pair[1]
         THEN <<Head(sorted)>> \o InsertDesc(Tail(sorted), pair)
         ELSE <<pair>> \o sorted

RECURSIVE SortedReverse(_)
SortedReverse(pairs) ==
    IF pairs = <<>> THEN <<>>
    ELSE InsertDesc(SortedReverse(SubSeq(pairs, 1, Len(pairs) - 1)),
                    pairs[Len(pairs)])

----------------------------------------------------------------------------
(* safe_get_roster_field, get_user_roster *)

safe_get_roster_field(roster, field) ==
    IF roster = NoneRoster THEN Unknown
    ELSE IF field \notin DOMAIN roster THEN Unknown
    ELSE IF roster[field] = None THEN Unknown
    ELSE roster[field]

\* lines 401-417.  players.add raises TypeError on a value that cannot be
\* hashed: the handler of line 414 then leaves players as the slots before
\* that one filled it, and the discard of line 413 has not run.
get_user_roster(roster) ==
    IF roster = NoneRoster THEN {}
    ELSE LET raising == {i \in 1..5 :
                            safe_get_roster_field(roster, SlotFields[i]) = Unhashable}
         IN  IF raising = {}
             THEN {safe_get_roster_field(roster, SlotFields[i]) : i \in 1..5} \ {Unknown}
             ELSE LET first == CHOOSE i \in raising : \A j \in raising : i <= j
                  IN  {safe_get_roster_field(roster, SlotFields[i]) : i \in 1..(first - 1)}

TransferredInKeepsAll(current_players, previous_players) == current_players

\* line 447 (and 610)
TransferredIn(current_players, previous_players) == current_players \ previous_players

\* line 448 (and 611)
TransferredOut(current_players, previous_players) == previous_players \ current_players

----------------------------------------------------------------------------
(* The lookups built from the previous gameweek *)

HasUsername(roster) == Truthy(roster) /\ "username" \in DOMAIN roster

\* the keys of previous_rosters (lines 425-429, 555-559)
PreviousUsernames(previous_gw_data_) ==
    {previous_gw_data_[i]["username"] :
        i \in {j \in 1..Len(previous_gw_data_) : HasUsername(previous_gw_data_[j])}}

\* previous_rosters[username]: in a dict comprehension the last record of a
\* username wins.
PreviousRoster(previous_gw_data_, username) ==
    LET at == {j \in 1..Len(previous_gw_data_) :
                  /\ HasUsername(previous_gw_data_[j])
                  /\ previous_gw_data_[j]["username"] = username}
        last == CHOOSE j \in at : \A k \in at : k <= j
    IN  previous_gw_data_[last]

----------------------------------------------------------------------------
(* calculate_transfers, lines 419-465 *)

BumpOverwrites(transfer_stats, player, kind) ==
    LET old == IF player \in DOMAIN transfer_stats
               THEN transfer_stats[player]
               ELSE [transferred_in |-> 0, transferred_out |-> 0]
        new == [old EXCEPT ![kind] = 1]
    IN  [p \in DOMAIN transfer_stats \cup {player} |->
            IF p = player THEN new ELSE transfer_stats[p]]

\* transfer_stats[player][kind] += 1, creating the entry when it is missing
\* (lines 452-454, 458-460)
Bump(transfer_stats, player, kind) ==
    LET old == IF player \in DOMAIN transfer_stats
               THEN transfer_stats[player]
               ELSE [transferred_in |-> 0, transferred_out |-> 0]
        new == [old EXCEPT ![kind] = @ + 1]
    IN  [p \in DOMAIN transfer_stats \cup {player} |->
            IF p = player THEN new ELSE transfer_stats[p]]

\* the loops of lines 450-460 over a set of players
RECURSIVE BumpAll(_, _, _)
BumpAll(transfer_stats, players, kind) ==
    IF players = {} THEN transfer_stats
    ELSE LET player == CHOOSE p \in players : TRUE
             next == IF IsPlayerName(player)
                     THEN Bump(transfer_stats, player, kind)
                     ELSE transfer_stats
         IN  BumpAll(next, players \ {player}, kind)

\* the loop of lines 434-460 from record i on; acc is
\* [transfer_stats, existing_users]
RECURSIVE TransfersLoop(_, _, _, _)
TransfersLoop(current_gw_data, previous_gw_data_, i, acc) ==
    IF i > Len(current_gw_data) THEN acc
    ELSE LET current_roster == current_gw_data[i]
         IN  IF ~HasUsername(current_roster)
             THEN TransfersLoop(current_gw_data, previous_gw_data_, i + 1, acc)
             ELSE LET username == current_roster["username"]
                  IN  IF username \notin PreviousUsernames(previous_gw_data_)
                      THEN TransfersLoop(current_gw_data, previous_gw_data_, i + 1, acc)
                      ELSE LET previous_roster == PreviousRoster(previous_gw_data_, username)
                               current_players == get_user_roster(current_roster)
                               previous_players == get_user_roster(previous_roster)
                               transferred_in == TransferredIn(current_players, previous_players)
                               transferred_out == TransferredOut(current_players, previous_players)
                               stats1 == BumpAll(acc.transfer_stats, transferred_in, "transferred_in")
                               stats2 == BumpAll(stats1, transferred_out, "transferred_out")
                           IN  TransfersLoop(current_gw_data, previous_gw_data_, i + 1,
                                   [transfer_stats |-> stats2,
                                    existing_users |-> acc.existing_users + 1])

calculate_transfers(current_gw_data, previous_gw_data_) ==
    IF current_gw_data = <<>> \/ previous_gw_data_ = <<>>
    THEN [transfer_stats |-> EmptyDict, existing_users |-> 0]
    ELSE TransfersLoop(current_gw_data, previous_gw_data_, 1,
                       [transfer_stats |-> EmptyDict, existing_users |-> 0])

----------------------------------------------------------------------------
(* analyze_player_frequency, lines 467-541 *)

\* player_stats is a dict: its entries [name, role, count] in insertion order.
StatsNames(player_stats) == {player_stats[k].name : k \in 1..Len(player_stats)}

CountPlayerLastRole(player_stats, player, role) ==
    IF player \in StatsNames(player_stats)
    THEN [k \in 1..Len(player_stats) |->
            IF player_stats[k].name = player
            THEN [player_stats[k] EXCEPT !.count = @ + 1, !.role = role]
            ELSE player_stats[k]]
    ELSE Append(player_stats, [name |-> player, role |-> role, count |-> 1])

\* lines 491-493
CountPlayer(player_stats, player, role) ==
    IF player \in StatsNames(player_stats)
    THEN [k \in 1..Len(player_stats) |->
            IF player_stats[k].name = player
            THEN [player_stats[k] EXCEPT !.count = @ + 1]
            ELSE player_stats[k]]
    ELSE Append(player_stats, [name |-> player, role |-> role, count |-> 1])

\* lines 487-493 for one roster, from slot f on: the role groups are scanned
\* in the order tank, dps (dpsOne, dpsTwo), support (supportOne, supportTwo),
\* which is the order of SlotFields.
RECURSIVE CountSlots(_, _, _)
CountSlots(player_stats, roster, f) ==
    IF f > Len(SlotFields) THEN player_stats
    ELSE LET player == safe_get_roster_field(roster, SlotFields[f])
             next == IF IsPlayerName(player)
                     THEN CountPlayer(player_stats, player, RoleOfField(SlotFields[f]))
                     ELSE player_stats
         IN  CountSlots(next, roster, f + 1)

\* the loop of lines 476-493 from roster i on
RECURSIVE CountRosters(_, _, _)
CountRosters(player_stats, rosters, i) ==
    IF i > Len(rosters) THEN player_stats
    ELSE IF ~Truthy(rosters[i]) THEN CountRosters(player_stats, rosters, i + 1)
    ELSE CountRosters(CountSlots(player_stats, rosters[i], 1), rosters, i + 1)

\* round(n / d * 100, 1), counting tenths of a percent.  For the small
\* counts of the model the float quotient is never at a rounding tie.
Pct(n, d) == RoundHalfEven(n * 1000, d)

PlayerDataNoDefaults(stats, total_teams, transfer_data, existing_users) ==
    LET base == [name |-> stats.name, role |-> stats.role, count |-> stats.count,
                 percentage |-> IF total_teams > 0 THEN Pct(stats.count, total_teams) ELSE 0]
    IN  IF /\ transfer_data /= NoneValue
           /\ DOMAIN transfer_data /= {}
           /\ stats.name \in DOMAIN transfer_data
        THEN LET t == transfer_data[stats.name]
             IN  base @@
                 [transferred_in |-> t.transferred_in,
                  transferred_out |-> t.transferred_out,
                  net_transfers |-> t.transferred_in - t.transferred_out,
                  transfer_in_pct |-> IF existing_users > 0
                                      THEN Pct(t.transferred_in, existing_users) ELSE 0,
                  transfer_out_pct |-> IF existing_users > 0
                                       THEN Pct(t.transferred_out, existing_users) ELSE 0]
        ELSE IF transfer_data /= NoneValue /\ DOMAIN transfer_data /= {}
        THEN base @@ [transferred_in |-> 0, transferred_out |-> 0, net_transfers |-> 0,
                      transfer_in_pct |-> 0, transfer_out_pct |-> 0]
        ELSE base

PlayerDataPctOfTeams(stats, total_teams, transfer_data, existing_users) ==
    LET base == [name |-> stats.name, role |-> stats.role, count |-> stats.count,
                 percentage |-> IF total_teams > 0 THEN Pct(stats.count, total_teams) ELSE 0]
    IN  IF /\ transfer_data /= NoneValue
           /\ DOMAIN transfer_data /= {}
           /\ stats.name \in DOMAIN transfer_data
        THEN LET t == transfer_data[stats.name]
             IN  base @@
                 [transferred_in |-> t.transferred_in,
                  transferred_out |-> t.transferred_out,
                  net_transfers |-> t.transferred_in - t.transferred_out,
                  transfer_in_pct |-> IF existing_users > 0
                                      THEN Pct(t.transferred_in, total_teams) ELSE 0,
                  transfer_out_pct |-> IF existing_users > 0
                                       THEN Pct(t.transferred_out, total_teams) ELSE 0]
        ELSE IF transfer_data /= NoneValue
        THEN base @@ [transferred_in |-> 0, transferred_out |-> 0, net_transfers |-> 0,
                      transfer_in_pct |-> 0, transfer_out_pct |-> 0]
        ELSE base

\* the two counts of the map taken one for the other
PlayerDataSwapsInOut(stats, total_teams, transfer_data, existing_users) ==
    LET base == [name |-> stats.name, role |-> stats.role, count |-> stats.count,
                 percentage |-> IF total_teams > 0 THEN Pct(stats.count, total_teams) ELSE 0]
    IN  IF /\ transfer_data /= NoneValue
           /\ DOMAIN transfer_data /= {}
           /\ stats.name \in DOMAIN transfer_data
        THEN LET t == transfer_data[stats.name]
             IN  base @@
                 [transferred_in |-> t.transferred_out,
                  transferred_out |-> t.transferred_in,
                  net_transfers |-> t.transferred_out - t.transferred_in,
                  transfer_in_pct |-> IF existing_users > 0
                                      THEN Pct(t.transferred_out, existing_users) ELSE 0,
                  transfer_out_pct |-> IF existing_users > 0
                                       THEN Pct(t.transferred_in, existing_users) ELSE 0]
        ELSE IF transfer_data /= NoneValue
        THEN base @@ [transferred_in |-> 0, transferred_out |-> 0, net_transfers |-> 0,
                      transfer_in_pct |-> 0, transfer_out_pct |-> 0]
        ELSE base

\* lines 501-532
PlayerData(stats, total_teams, transfer_data, existing_users) ==
    LET base == [name |-> stats.name, role |-> stats.role, count |-> stats.count,
                 percentage |-> IF total_teams > 0 THEN Pct(stats.count, total_teams) ELSE 0]
    IN  IF /\ transfer_data /= NoneValue
           /\ DOMAIN transfer_data /= {}
           /\ stats.name \in DOMAIN transfer_data
        THEN LET t == transfer_data[stats.name]
             IN  base @@
                 [transferred_in |-> t.transferred_in,
                  transferred_out |-> t.transferred_out,
                  net_transfers |-> t.transferred_in - t.transferred_out,
                  transfer_in_pct |-> IF existing_users > 0
                                      THEN Pct(t.transferred_in, existing_users) ELSE 0,
                  transfer_out_pct |-> IF existing_users > 0
                                       THEN Pct(t.transferred_out, existing_users) ELSE 0]
        ELSE IF transfer_data /= NoneValue
        THEN base @@ [transferred_in |-> 0, transferred_out |-> 0, net_transfers |-> 0,
                      transfer_in_pct |-> 0, transfer_out_pct |-> 0]
        ELSE base

KeyLessNameDescending(a, b) ==
    \/ a.count > b.count
    \/ a.count = b.count /\ StrLess(b.name, a.name)

\* the sort key of line 536: (-count, name), ascending
KeyLess(a, b) ==
    \/ a.count > b.count
    \/ a.count = b.count /\ StrLess(a.name, b.name)

RECURSIVE InsertByKey(_, _)
InsertByKey(sorted, x) ==
    IF sorted = <<>> THEN <<x>>
    ELSE IF KeyLess(x, Head(sorted))
         THEN <<x>> \o sorted
         ELSE <<Head(sorted)>> \o InsertByKey(Tail(sorted), x)

RECURSIVE SortByKey(_)
SortByKey(items) ==
    IF items = <<>> THEN <<>>
    ELSE InsertByKey(SortByKey(SubSeq(items, 1, Len(items) - 1)), items[Len(items)])

\* lines 497-499: the entries kept for the result
IsListedPlayer(stats) == IsPlayerName(stats.name)

TotalTeamsNonEmpty(rosters) == Len(SelectSeq(rosters, Truthy))

\* line 474
TotalTeams(rosters) == Len(rosters)

\* line 491: `player not in player_stats` raises TypeError on a slot value
\* that cannot be hashed; the handler of line 539 returns []
FrequencyRaises(rosters) ==
    \E k \in 1..Len(rosters) :
        /\ Truthy(rosters[k])
        /\ \E f \in 1..Len(SlotFields) :
              safe_get_roster_field(rosters[k], SlotFields[f]) = Unhashable

analyze_player_frequency(rosters, transfer_data, existing_users) ==
    IF rosters = <<>> THEN <<>>
    ELSE IF FrequencyRaises(rosters) THEN <<>>
    ELSE LET player_stats == CountRosters(<<>>, rosters, 1)
             total_teams == TotalTeams(rosters)
             kept == SelectSeq(player_stats, IsListedPlayer)
             result_ == [k \in 1..Len(kept) |->
                           PlayerData(kept[k], total_teams, transfer_data, existing_users)]
         IN  SortByKey(result_)

----------------------------------------------------------------------------
(* generate_leaderboard, lines 543-629 *)

\* line 561
HasScore(roster) == Truthy(roster) /\ "score" \in DOMAIN roster

\* line 566
IsValidCurrent(roster) ==
    Truthy(roster) /\ "score" \in DOMAIN roster /\ "username" \in DOMAIN roster

\* sorted(rosters, key=lambda x: float(x.get("score", 0)), reverse=True)
TotalLeaderboard(rosters) ==
    LET pairs == [k \in 1..Len(rosters) |-> <<ScoreOf(rosters[k]), rosters[k]>>]
        sorted == SortedReverse(pairs)
    IN  [k \in 1..Len(sorted) |-> sorted[k][2]]

\* {roster["username"]: i + 1 for i, roster in enumerate(board)}[username]:
\* the last record of a username wins.  Every record of board has a username.
PositionOf(board, username) ==
    LET at == {k \in 1..Len(board) : board[k]["username"] = username}
    IN  CHOOSE k \in at : \A j \in at : j <= k

PositionNames(board) == {board[k]["username"] : k \in 1..Len(board)}

\* line 563 raises KeyError when a record of the previous ranking has no
\* username: valid_previous (line 561) asks for "score" only.
PreviousRankingRaises(previous_gw_data_) ==
    \E k \in 1..Len(previous_gw_data_) :
        HasScore(previous_gw_data_[k]) /\ "username" \notin DOMAIN previous_gw_data_[k]

WeeklyPointsNoDelta(current_total_score, known, previous_total_score) ==
    current_total_score

\* lines 575-578
WeeklyPoints(current_total_score, known, previous_total_score) ==
    IF known THEN current_total_score - previous_total_score ELSE current_total_score

OverallPositionChangeReversed(previous_overall_position, current_overall_position) ==
    IF previous_overall_position /= Null
    THEN current_overall_position - previous_overall_position[1]
    ELSE 0

\* line 603; the else branch of line 616 gives 0 as well
OverallPositionChange(previous_overall_position, current_overall_position) ==
    IF previous_overall_position /= Null
    THEN previous_overall_position[1] - current_overall_position
    ELSE 0

\* lines 570-619: the entry of one valid current record, before
\* weekly_position is set
LeaderboardEntry(roster, current_total_leaderboard, previous_gw_data_, previous_total_leaderboard) ==
    LET username == roster["username"]
        current_total_score == ScoreOf(roster)
        known == previous_gw_data_ /= <<>>
                 /\ username \in PreviousUsernames(previous_gw_data_)
        previous_total_score ==
            IF known THEN ScoreOf(PreviousRoster(previous_gw_data_, username)) ELSE 0
        weekly_points == WeeklyPoints(current_total_score, known, previous_total_score)
        current_overall_position == PositionOf(current_total_leaderboard, username)
        previous_overall_position ==
            IF known /\ username \in PositionNames(previous_total_leaderboard)
            THEN Some(PositionOf(previous_total_leaderboard, username))
            ELSE Null
        current_players == get_user_roster(roster)
        previous_players ==
            IF known THEN get_user_roster(PreviousRoster(previous_gw_data_, username))
            ELSE {}
    IN  [username |-> username,
         weekly_points |-> Round1(weekly_points),
         current_total_score |-> Round1(current_total_score),
         current_overall_position |-> current_overall_position,
         transferred_in |->
            IF known THEN ListOfSet(TransferredIn(current_players, previous_players))
            ELSE <<>>,
         transferred_out |->
            IF known THEN ListOfSet(TransferredOut(current_players, previous_players))
            ELSE <<>>,
         tank |-> safe_get_roster_field(roster, "tank"),
         dpsOne |-> safe_get_roster_field(roster, "dpsOne"),
         dpsTwo |-> safe_get_roster_field(roster, "dpsTwo"),
         supportOne |-> safe_get_roster_field(roster, "supportOne"),
         supportTwo |-> safe_get_roster_field(roster, "supportTwo"),
         previous_total_score |->
            IF known THEN Some(Round1(previous_total_score)) ELSE Null,
         previous_overall_position |-> previous_overall_position,
         overall_position_change |->
            OverallPositionChange(previous_overall_position, current_overall_position)]

\* lines 621-624: sort by weekly_points, descending and stable, and number
WeeklyRanked(leaderboard) ==
    LET pairs == [k \in 1..Len(leaderboard) |->
                    <<leaderboard[k].weekly_points, leaderboard[k]>>]
        sorted == SortedReverse(pairs)
    IN  [k \in 1..Len(sorted) |-> sorted[k][2] @@ [weekly_position |-> k]]

generate_leaderboard(current_gw_data, previous_gw_data_) ==
    IF current_gw_data = <<>> THEN <<>>
    ELSE IF previous_gw_data_ /= <<>> /\ PreviousRankingRaises(previous_gw_data_)
    THEN <<>>
    ELSE LET previous_total_leaderboard ==
                 IF previous_gw_data_ /= <<>>
                 THEN TotalLeaderboard(SelectSeq(previous_gw_data_, HasScore))
                 ELSE <<>>
             valid_current == SelectSeq(current_gw_data, IsValidCurrent)
             current_total_leaderboard == TotalLeaderboard(valid_current)
             leaderboard ==
                 [k \in 1..Len(valid_current) |->
                     LeaderboardEntry(valid_current[k], current_total_leaderboard,
                                      previous_gw_data_, previous_total_leaderboard)]
         IN  WeeklyRanked(leaderboard)

----------------------------------------------------------------------------
(* gameweek names: gameweek_sort_key (lines 643-649) and the stage (line 672) *)

UpperCase == <<"A", "B", "C", "D", "E", "F", "G", "H", "I", "J", "K", "L", "M",
               "N", "O", "P", "Q", "R", "S", "T", "U", "V", "W", "X", "Y", "Z">>

LowerCase == <<"a", "b", "c", "d", "e", "f", "g", "h", "i", "j", "k", "l", "m",
               "n", "o", "p", "q", "r", "s", "t", "u", "v", "w", "x", "y", "z">>

Digits == <<"0", "1", "2", "3", "4", "5", "6", "7", "8", "9">>

\* str.lower(), on the ASCII names of the pools
LowerChar(c) ==
    IF \E k \in 1..26 : UpperCase[k] = c
    THEN LowerCase[CHOOSE k \in 1..26 : UpperCase[k] = c]
    ELSE c

Lower(name) == [k \in 1..Len(name) |-> LowerChar(name[k])]

\* sub in name
Contains(name, sub) ==
    \E k \in 0..(Len(name) - Len(sub)) : SubSeq(name, k + 1, k + Len(sub)) = sub

\* SUPERSCRIPT TWO, written as one character of a name: str.isdigit() accepts
\* it and int() rejects it
SuperscriptTwo == "^2"

\* str.isdigit
IsDigit(c) == c = SuperscriptTwo \/ \E k \in 1..10 : Digits[k] = c

\* int(num) raises ValueError on a digit that is not a decimal
IntRaises(num) == \E k \in 1..Len(num) : num[k] = SuperscriptTwo

DigitValue(c) == (CHOOSE k \in 1..10 : Digits[k] = c) - 1

\* int(num) for a non-empty string of digits
RECURSIVE IntOf(_)
IntOf(num) ==
    IF num = <<>> THEN 0
    ELSE 10 * IntOf(SubSeq(num, 1, Len(num) - 1)) + DigitValue(num[Len(num)])

Playoff == <<"p", "l", "a", "y", "o", "f", "f">>

IsPlayoff(gw_name) == Contains(Lower(gw_name), Playoff)

gameweek_sort_key_case_sensitive(gw_name) ==
    LET num == SelectSeq(gw_name, IsDigit)
    IN  <<IF Contains(gw_name, Playoff) THEN 1 ELSE 0, IF num /= <<>> THEN IntOf(num) ELSE 0>>

gameweek_sort_key(gw_name) ==
    LET num == SelectSeq(gw_name, IsDigit)
    IN  <<IF IsPlayoff(gw_name) THEN 1 ELSE 0, IF num /= <<>> THEN IntOf(num) ELSE 0>>

\* tuple comparison of two sort keys
SortKeyLess(a, b) == a[1] < b[1] \/ (a[1] = b[1] /\ a[2] < b[2])

\* sorted(gameweek_data.items(), key=...): ascending, stable
RECURSIVE InsertGameweek(_, _)
InsertGameweek(sorted, item) ==
    IF sorted = <<>> THEN <<item>>
    ELSE IF SortKeyLess(gameweek_sort_key(item.name), gameweek_sort_key(Head(sorted).name))
         THEN <<item>> \o sorted
         ELSE <<Head(sorted)>> \o InsertGameweek(Tail(sorted), item)

RECURSIVE SortGameweeks(_)
SortGameweeks(items) ==
    IF items = <<>> THEN <<>>
    ELSE InsertGameweek(SortGameweeks(SubSeq(items, 1, Len(items) - 1)), items[Len(items)])

StageOf(gameweek_name) ==
    IF IsPlayoff(gameweek_name) THEN "Stage 2 Playoffs" ELSE "Stage 2 Regular Season"

----------------------------------------------------------------------------
(* process_all_gameweeks, lines 631-713 *)

\* a stored value: the parsed JSON of one file
ListValue(items) == [is_list |-> TRUE, items |-> items]

NonListValue == [is_list |-> FALSE, items |-> <<>>]

IsNotNone(r) == r /= NoneRoster

\* line 661
IsSkippedValue(data) == ~data.is_list \/ data.items = <<>>

\* line 666
NonNoneRosters(data) == SelectSeq(data.items, IsNotNone)

\* d[key] = value
DictSet(d, key, value) ==
    [k \in DOMAIN d \cup {key} |-> IF k = key THEN value ELSE d[k]]

RECURSIVE SumWeeklyPoints(_)
SumWeeklyPoints(leaderboard) ==
    IF leaderboard = <<>> THEN 0
    ELSE Head(leaderboard).weekly_points + SumWeeklyPoints(Tail(leaderboard))

\* round(total_points / len(leaderboard), 1), counting tenths.  The sum of
\* one-decimal floats is not exact: when the exact quotient is half-way
\* between two tenths the float may fall on either side, so both are outcomes.
AveragePoints(leaderboard) ==
    IF leaderboard = <<>> THEN {0}
    ELSE LET total == SumWeeklyPoints(leaderboard)
             n == Len(leaderboard)
         IN  IF 2 * (total % n) = n
             THEN {total \div n, total \div n + 1}
             ELSE {RoundHalfEven(total, n)}

\* a generate_leaderboard that ranks with current_gw_data.sort(...): the list
\* the caller holds is reordered
RostersSortedInPlace(rosters) == TotalLeaderboard(rosters)

\* the list `rosters` of line 666 after the calls of lines 678-686.  The
\* three functions iterate over it (434, 476, 566) and rank it with sorted()
\* (567), which builds a new list; every write (454, 493, 513, 600, 624) goes
\* to a dict or list the function created itself.
RostersAfterCalls(rosters) == rosters

EmptyResult == [leaderboards |-> EmptyDict, transfers |-> EmptyDict, stages |-> EmptyDict]

\* a handler that reports the error alone
ErrorResultOnlyError == [error |-> "ValueError"]

\* lines 711-713: an exception anywhere in the function
ErrorResult == EmptyResult @@ [error |-> "ValueError"]

\* line 651: sorted() computes the key of every name; int() raises at 645/648
SortRaises(files) ==
    \E k \in 1..Len(files) : IntRaises(SelectSeq(files[k].name, IsDigit))

\* a file whose content json.load rejects
Corrupt == [is_list |-> FALSE, items |-> <<>>, corrupt |-> TRUE]

Parses(file) == file.data /= Corrupt

\* gameweek_data[gameweek_name] = data, line 380: a name the dict holds keeps
\* its place and takes the new data
StoreFile(loaded, file) ==
    IF \E k \in 1..Len(loaded) : loaded[k].name = file.name
    THEN [k \in 1..Len(loaded) |->
            IF loaded[k].name = file.name THEN file ELSE loaded[k]]
    ELSE Append(loaded, file)

\* lines 373-385: the files in directory order
RECURSIVE LoadFiles(_, _)
LoadFiles(files, loaded) ==
    IF files = <<>> THEN loaded
    ELSE LoadFiles(Tail(files),
                   IF Parses(Head(files)) THEN StoreFile(loaded, Head(files)) ELSE loaded)

\* a loader that collects the files in a list of (name, data) pairs
load_json_files_as_list(dir, files) ==
    IF dir \in {"missing", "unreadable"} THEN <<>> ELSE SelectSeq(files, Parses)

\* load_json_files, lines 364-389: nothing when the directory does not exist
\* (369-371) or cannot be listed (386-387); a file that fails to parse is
\* left out (382-385).  Two file names may give one gameweek name: line 379
\* removes every '.json' of the name ('gw1.json' and 'gw1.json.json').
load_json_files(dir, files) ==
    IF dir \in {"missing", "unreadable"} THEN <<>> ELSE LoadFiles(files, <<>>)

\* lines 633-652: load the store, return at once when nothing was loaded,
\* else sort
LoadAndSort ==
    /\ pc = "start"
    /\ gameweek_data' = load_json_files(directory, store)
    /\ \/ /\ gameweek_data' = <<>>
          /\ result' = EmptyResult
          /\ pc' = "done"
          /\ UNCHANGED sorted_gameweeks
       \/ /\ gameweek_data' /= <<>>
          /\ SortRaises(gameweek_data')
          /\ result' = ErrorResult
          /\ pc' = "done"
          /\ UNCHANGED sorted_gameweeks
       \/ /\ gameweek_data' /= <<>>
          /\ ~SortRaises(gameweek_data')
          /\ sorted_gameweeks' = SortGameweeks(gameweek_data')
          /\ pc' = "loop"
          /\ UNCHANGED result
    /\ UNCHANGED match_vars
    /\ UNCHANGED <<directory, store, hash_order, idx, previous_gw_data, leaderboards,
                   transfers, stages, calls>>

SkipGameweekForgetsPrevious ==
    /\ pc = "loop"
    /\ idx <= Len(sorted_gameweeks)
    /\ LET data == sorted_gameweeks[idx].data
       IN  IsSkippedValue(data) \/ NonNoneRosters(data) = <<>>
    /\ idx' = idx + 1
    /\ previous_gw_data' = NoData
    /\ UNCHANGED match_vars
    /\ UNCHANGED <<directory, store, hash_order, pc, gameweek_data, sorted_gameweeks,
                   leaderboards, transfers, stages, result, calls>>

\* lines 661-669: the gameweek is skipped
SkipGameweek ==
    /\ pc = "loop"
    /\ idx <= Len(sorted_gameweeks)
    /\ LET data == sorted_gameweeks[idx].data
       IN  IsSkippedValue(data) \/ NonNoneRosters(data) = <<>>
    /\ idx' = idx + 1
    /\ UNCHANGED match_vars
    /\ UNCHANGED <<directory, store, hash_order, pc, gameweek_data, sorted_gameweeks,
                   previous_gw_data, leaderboards, transfers, stages, result, calls>>

\* lines 671-700: one iteration of the loop that processes its gameweek
ProcessGameweek ==
    /\ pc = "loop"
    /\ idx <= Len(sorted_gameweeks)
    /\ LET gameweek_name == sorted_gameweeks[idx].name
           data == sorted_gameweeks[idx].data
       IN  /\ ~IsSkippedValue(data)
           /\ NonNoneRosters(data) /= <<>>
           /\ LET rosters == NonNoneRosters(data)
                  stage == StageOf(gameweek_name)
                  calc == IF previous_gw_data /= <<>>
                          THEN calculate_transfers(rosters, previous_gw_data)
                          ELSE [transfer_stats |-> EmptyDict, existing_users |-> 0]
                  transfer_data == calc.transfer_stats
                  existing_users == calc.existing_users
                  new_users == Len(rosters) - existing_users
                  player_analysis ==
                      analyze_player_frequency(rosters, transfer_data, existing_users)
                  leaderboard == generate_leaderboard(rosters, previous_gw_data)
              IN  /\ stages' = DictSet(stages, stage,
                                    IF stage \in DOMAIN stages
                                    THEN Append(stages[stage], gameweek_name)
                                    ELSE <<gameweek_name>>)
                  /\ transfers' = DictSet(transfers, gameweek_name, player_analysis)
                  /\ \E average_points \in AveragePoints(leaderboard) :
                        leaderboards' = DictSet(leaderboards, gameweek_name,
                            [data |-> leaderboard,
                             total_participants |-> Len(leaderboard),
                             new_users |-> new_users,
                             existing_users |-> existing_users,
                             average_points |-> average_points])
                  /\ calls' = DictSet(calls, gameweek_name,
                                   [current |-> rosters,
                                    previous |-> previous_gw_data,
                                    transfer_data |-> transfer_data])
                  /\ previous_gw_data' = RostersAfterCalls(rosters)
    /\ idx' = idx + 1
    /\ UNCHANGED match_vars
    /\ UNCHANGED <<directory, store, hash_order, pc, gameweek_data, sorted_gameweeks,
                   result>>

\* lines 702-709
Return ==
    /\ pc = "loop"
    /\ idx > Len(sorted_gameweeks)
    /\ result' = [leaderboards |-> leaderboards, transfers |-> transfers, stages |-> stages]
    /\ pc' = "done"
    /\ UNCHANGED match_vars
    /\ UNCHANGED <<directory, store, hash_order, gameweek_data, sorted_gameweeks, idx,
                   previous_gw_data, leaderboards, transfers, stages, calls>>

----------------------------------------------------------------------------
(* The stores the model is run on *)

\* a JSON object from optional fields: an option is {} (key absent) or {v}
Field(key, option) ==
    IF option = {} THEN EmptyDict ELSE key :> (CHOOSE v \in option : TRUE)

Record(username, score, slots) ==
    Field("username", username) @@ Field("score", score) @@ slots

RECURSIVE SeqsUpTo(_, _)
SeqsUpTo(S, n) ==
    IF n = 0 THEN {<<>>}
    ELSE LET shorter == SeqsUpTo(S, n - 1)
         IN  shorter \cup {Append(q, x) : q \in {r \in shorter : Len(r) = n - 1}, x \in S}

File(name, data) == [name |-> name, data |-> data]

Gw1 == <<"g", "w", "1">>

Gw2 == <<"g", "w", "2">>

Gw10 == <<"g", "w", "1", "0">>

Final == <<"f", "i", "n", "a", "l">>

W2d1 == <<"w", "2", "d", "1">>

Playoffs1 == <<"P", "l", "a", "y", "o", "f", "f", "s", "1">>

PLAYOFF == <<"P", "L", "A", "Y", "O", "F", "F">>

GwSup2 == <<"g", "w", SuperscriptTwo>>

NamePool == {Gw1, Gw2, Gw10, Final, W2d1, Playoffs1, PLAYOFF, GwSup2}

FullSlots == [tank |-> "P1", dpsOne |-> "P2", dpsTwo |-> "P3",
              supportOne |-> "P4", supportTwo |-> "P5"]

\* records that differ in username and score: either key may be missing
ScoreRecords ==
    {Record(u, sc, FullSlots) : u \in {{}, {"alice"}, {"bob"}}, sc \in {{}, {50}, {75}}}

Alice(sc) == Record({"alice"}, sc, FullSlots)

Bob(sc) == Record({"bob"}, sc, FullSlots)

\* the lists the first of two gameweeks holds: a tie, a reordering, a user
\* who joins later, records without username or without score, a username
\* that occurs twice
PreviousScoreLists ==
    {<<Alice({50}), Bob({50})>>,
     <<Bob({75}), Alice({50})>>,
     <<Alice({75})>>,
     <<Record({}, {75}, FullSlots), Alice({50})>>,
     <<Alice({}), Bob({50})>>,
     <<Alice({50}), Alice({75})>>,
     <<Record({}, {}, FullSlots), Bob({75})>>}

\* records that differ in their slots: missing, null, empty and "Unknown"
\* slots, a player in two slots, a player whose role changes, a slot that
\* holds an array
SlotPool ==
    {FullSlots,
     [tank |-> "P1", dpsOne |-> "P3", dpsTwo |-> "P2", supportOne |-> "P4",
      supportTwo |-> None],
     [tank |-> "P2", dpsOne |-> "Unknown", dpsTwo |-> "", supportOne |-> "P4"],
     [tank |-> "P5", dpsOne |-> "P5", dpsTwo |-> "P1", supportOne |-> None,
      supportTwo |-> "P4"],
     [tank |-> None, dpsOne |-> Unhashable, dpsTwo |-> "P1"]}

RosterRecords ==
    {Record({"alice"}, {50}, slots) : slots \in SlotPool}
    \cup {Record({"bob"}, {75}, [tank |-> "P2", dpsOne |-> "Unknown", dpsTwo |-> "",
                                 supportOne |-> "P4"])}

PreviousRosterLists ==
    {<<Record({"alice"}, {50}, FullSlots), Record({"bob"}, {50}, FullSlots)>>,
     <<Record({"alice"}, {25}, [tank |-> "P2", dpsOne |-> "Unknown", dpsTwo |-> "",
                                supportOne |-> "P4"])>>,
     <<Record({"bob"}, {50}, [tank |-> "P5", dpsOne |-> "P5", dpsTwo |-> "P1",
                              supportOne |-> None, supportTwo |-> "P4"]),
       Record({"alice"}, {50}, [tank |-> "P3", supportTwo |-> "Unknown"])>>}

HashOrders == {PlayerOrder, <<"P5", "Unknown", "P2", "", "P4", "P1", "P3">>}

V1 == ListValue(<<Record({"alice"}, {50}, FullSlots), Record({"bob"}, {75}, FullSlots)>>)

V2 == ListValue(<<NoneRoster,
                  Record({"bob"}, {50}, FullSlots),
                  Record({"alice"}, {75}, [tank |-> "P2"])>>)

V3 == ListValue(<<EmptyDict, Record({"bob"}, {50}, FullSlots),
                  Record({"alice"}, {25}, [tank |-> None, dpsOne |-> "P2"])>>)

SkipValuePool ==
    {NonListValue, ListValue(<<>>), ListValue(<<NoneRoster>>), V1, V2, V3,
     ListValue(<<EmptyDict, Record({"carol"}, {25}, EmptyDict)>>)}

\* no match is being scored
NoMatch ==
    /\ match_data = NoneValue
    /\ match_stats = NoneValue
    /\ provider = NoneValue
    /\ match_pc = "idle"
    /\ match_summary = NoneValue
    /\ scores = NoneValue
    /\ report = NoneValue
    /\ provider_calls = NoneValue
    /\ response = NoneValue

StartIn(dir, files, order) ==
    /\ NoMatch
    /\ directory = dir
    /\ store = files
    /\ hash_order = order
    /\ pc = "start"
    /\ gameweek_data = <<>>
    /\ sorted_gameweeks = <<>>
    /\ idx = 1
    /\ previous_gw_data = NoData
    /\ leaderboards = EmptyDict
    /\ transfers = EmptyDict
    /\ stages = EmptyDict
    /\ result = NoneValue
    /\ calls = EmptyDict

Start(files, order) == StartIn("present", files, order)

\* one gameweek, or two, of records that differ in username and score
InitScores ==
    \E b \in SeqsUpTo(ScoreRecords, MaxRosters) :
        \/ Start(<<File(Gw1, ListValue(b))>>, PlayerOrder)
        \/ \E a \in PreviousScoreLists :
              Start(<<File(Gw2, ListValue(b)), File(Gw1, ListValue(a))>>, PlayerOrder)

\* two gameweeks of records that differ in their slots
InitRosters ==
    \E a \in PreviousRosterLists : \E b \in SeqsUpTo(RosterRecords, MaxRosters) :
        \E order \in HashOrders :
            Start(<<File(Gw1, ListValue(a)), File(Gw2, ListValue(b))>>, order)

\* up to MaxGameweeks files with names of the pool, in any directory order
InitNames ==
    \E names \in SeqsUpTo(NamePool, MaxGameweeks) :
        /\ \A j, k \in 1..Len(names) : j /= k => names[j] /= names[k]
        /\ Start([k \in 1..Len(names) |-> File(names[k], V1)], PlayerOrder)

\* three gameweeks, each processed or skipped
InitSkips ==
    \E a, b, c \in SkipValuePool :
        Start(<<File(Gw1, a), File(Gw10, c), File(Gw2, b)>>, PlayerOrder)

\* a store that cannot be reached, stores holding files that fail to parse,
\* and stores holding two files of one gameweek name
InitStoreFailure ==
    \/ \E dir \in {"missing", "unreadable"} : StartIn(dir, <<>>, PlayerOrder)
    \/ \E files \in {<<File(Gw1, Corrupt)>>,
                      <<File(Gw1, Corrupt), File(Gw2, V1)>>,
                      <<File(Gw2, V2), File(GwSup2, Corrupt), File(Gw1, V1)>>,
                      <<File(Gw1, V1), File(Gw2, V2), File(Gw1, V3)>>,
                      <<File(Playoffs1, V1), File(Gw1, V2), File(Playoffs1, Corrupt)>>,
                      <<File(PLAYOFF, V2), File(Gw2, NonListValue), File(PLAYOFF, V1),
                        File(Gw2, V3)>>} :
          Start(files, PlayerOrder)

Init == InitScores \/ InitRosters \/ InitNames \/ InitSkips \/ InitStoreFailure

Next == LoadAndSort \/ SkipGameweek \/ ProcessGameweek \/ Return


Spec == Init /\ [][Next]_vars

----------------------------------------------------------------------------
(* Match scoring: calculate_score, calculate_player_scores_for_each_map and  *)
(* calculate_player_scores_for_match (lines 130-237).  A score is a float    *)
(* that is a multiple of 0.5; it is held in hundredths like the gameweek     *)
(* scores.  A stat is the string the provider sends, held as the tuple of    *)
(* its characters and read with int().                                       *)

calculate_score_true_division(eliminations, deaths, damage, healing) ==
    LET elimination_points == (eliminations \div 3) * 100
        death_points == deaths * (-1) * 100
        damage_points == (damage * 50) \div 2000
        healing_points == (healing * 50) \div 2000
    IN  elimination_points + death_points + damage_points + healing_points

\* lines 170-176; // floors
calculate_score(eliminations, deaths, damage, healing) ==
    LET elimination_points == (eliminations \div 3) * 100
        death_points == deaths * (-1) * 100
        damage_points == (damage \div 2000) * 50
        healing_points == (healing \div 2000) * 50
    IN  elimination_points + death_points + damage_points + healing_points

\* lines 130-138: the name of the first team of match_data with the faction
get_team_name(faction_id, match_data_) ==
    IF faction_id = "" THEN "Draw"
    ELSE LET at == {k \in 1..Len(match_data_.teams) :
                       match_data_.teams[k].faction_id = faction_id}
         IN  IF at = {} THEN "Failed to get Team Name"
             ELSE match_data_.teams[CHOOSE k \in at : \A j \in at : k <= j].name

\* lines 140-146
get_map_name(map_id, match_data_) ==
    LET at == {k \in 1..Len(match_data_.maps) : match_data_.maps[k].game_map_id = map_id}
    IN  IF at = {} THEN "Failed to get Map Name"
        ELSE match_data_.maps[CHOOSE k \in at : \A j \in at : k <= j].name

\* the rosters of match_data["teams"].values(), one after the other
RECURSIVE JoinRosters(_)
JoinRosters(teams) ==
    IF teams = <<>> THEN <<>> ELSE Head(teams).roster \o JoinRosters(Tail(teams))

AllRosters(match_data_) == JoinRosters(match_data_.teams)

InRoster(player_id, match_data_) ==
    \E k \in 1..Len(AllRosters(match_data_)) :
        AllRosters(match_data_)[k].player_id = player_id

\* line 154: get_player_details raises when the provider fails
PlayerNameRaises(player_id, match_data_, provider_) ==
    ~InRoster(player_id, match_data_) /\ ~provider_.up

\* lines 148-154
get_player_name(player_id, match_data_, provider_) ==
    LET roster == AllRosters(match_data_)
        at == {k \in 1..Len(roster) : roster[k].player_id = player_id}
    IN  IF at /= {}
        THEN roster[CHOOSE k \in at : \A j \in at : k <= j].game_player_name
        ELSE provider_.names[player_id]

\* Python's order of the player names of the pools
NameOrder == <<"Ann", "Bob", "Cy", "Dee", "Eve", "Fay">>

NameIndex(name) == CHOOSE i \in 1..Len(NameOrder) : NameOrder[i] = name

\* role_order.get(Role, 3), line 158
RoleOrder(role) ==
    IF role = "Tank" THEN 0
    ELSE IF role = "Damage" THEN 1
    ELSE IF role = "Support" THEN 2
    ELSE 3

\* the sort key of line 168
StatsKeyLess(a, b) ==
    \/ RoleOrder(a.player_stats["Role"]) < RoleOrder(b.player_stats["Role"])
    \/ /\ RoleOrder(a.player_stats["Role"]) = RoleOrder(b.player_stats["Role"])
       /\ NameIndex(a.name) < NameIndex(b.name)

\* sorted(): stable
RECURSIVE InsertByStatsKey(_, _)
InsertByStatsKey(sorted, x) ==
    IF sorted = <<>> THEN <<x>>
    ELSE IF StatsKeyLess(x, Head(sorted))
         THEN <<x>> \o sorted
         ELSE <<Head(sorted)>> \o InsertByStatsKey(Tail(sorted), x)

RECURSIVE SortByStatsKey(_)
SortByStatsKey(items) ==
    IF items = <<>> THEN <<>>
    ELSE InsertByStatsKey(SortByStatsKey(SubSeq(items, 1, Len(items) - 1)),
                          items[Len(items)])

\* lines 156-168
get_team_stats(team_index, map_index, match_stats_, match_data_, provider_) ==
    LET players == match_stats_.rounds[map_index].teams[team_index].players
    IN  SortByStatsKey([k \in 1..Len(players) |->
            [name |-> get_player_name(players[k].player_id, match_data_, provider_),
             player_stats |-> players[k].player_stats]])

\* lines 201-217: the entry of one player of a map
PlayerEntry(player) ==
    LET player_stats == player.player_stats
    IN  [role |-> player_stats["Role"],
         name |-> player.name,
         eliminations |-> player_stats["Eliminations"],
         deaths |-> player_stats["Deaths"],
         damage |-> player_stats["Damage Dealt"],
         healing |-> player_stats["Healing Done"],
         score |-> calculate_score(IntOf(player_stats["Eliminations"]),
                                   IntOf(player_stats["Deaths"]),
                                   IntOf(player_stats["Damage Dealt"]),
                                   IntOf(player_stats["Healing Done"]))]

\* lines 195-220: one team of a map
TeamEntry(team_index, i, match_stats_, match_data_, provider_) ==
    LET team_stats == get_team_stats(team_index, i, match_stats_, match_data_, provider_)
    IN  [name |-> get_team_name(match_stats_.rounds[i].teams[team_index].team_id,
                                match_data_),
         players |-> [k \in 1..Len(team_stats) |-> PlayerEntry(team_stats[k])]]

\* lines 182-221: one map; match_round counts from 0
MapEntry(i, match_stats_, match_data_, provider_) ==
    LET round_stats == match_stats_.rounds[i].round_stats
        winner_faction == IF "Winner" \in DOMAIN round_stats
                          THEN round_stats["Winner"] ELSE ""
    IN  [match_round |-> i - 1,
         mode |-> round_stats["OW2 Mode"],
         map |-> get_map_name(round_stats["Map"], match_data_),
         winner |-> get_team_name(winner_faction, match_data_),
         map_score |-> round_stats["Score Summary"],
         teams |-> <<TeamEntry(1, i, match_stats_, match_data_, provider_),
                     TeamEntry(2, i, match_stats_, match_data_, provider_)>>]

\* a player of some map is neither in a roster nor known to a provider that
\* answers: the call of line 154 raises out of the function
EachMapRaises(match_data_, match_stats_, provider_) ==
    \E i \in 1..Len(match_stats_.rounds) : \E t \in 1..2 :
        \E k \in 1..Len(match_stats_.rounds[i].teams[t].players) :
            PlayerNameRaises(match_stats_.rounds[i].teams[t].players[k].player_id,
                             match_data_, provider_)

\* lines 178-222
calculate_player_scores_for_each_map(match_data_, match_stats_, provider_) ==
    [i \in 1..Len(match_stats_.rounds) |-> MapEntry(i, match_stats_, match_data_, provider_)]

\* the (team, player, score) of every player entry of a map, team by team
PlayerScoresOfTeam(team) ==
    [k \in 1..Len(team.players) |->
        [team |-> team.name, name |-> team.players[k].name,
         score |-> team.players[k].score]]

\* lines 229-235: the player entries in the order the loops visit them
RECURSIVE PlayerScores(_)
PlayerScores(match_summary_) ==
    IF match_summary_ = <<>> THEN <<>>
    ELSE PlayerScoresOfTeam(Head(match_summary_).teams[1])
         \o PlayerScoresOfTeam(Head(match_summary_).teams[2])
         \o PlayerScores(Tail(match_summary_))

AddScoreOverwrites(team_player_scores, x) ==
    IF \E k \in 1..Len(team_player_scores) : team_player_scores[k].team = x.team
    THEN [k \in 1..Len(team_player_scores) |->
            IF team_player_scores[k].team = x.team
            THEN [team_player_scores[k] EXCEPT !.scores =
                    IF x.name \in DOMAIN @
                    THEN [@ EXCEPT ![x.name] = x.score]
                    ELSE @ @@ (x.name :> x.score)]
            ELSE team_player_scores[k]]
    ELSE Append(team_player_scores, [team |-> x.team, scores |-> (x.name :> x.score)])

\* line 235: team_player_scores[team_name][player_name] += player_score.
\* team_player_scores is a dict of dicts: its teams in insertion order, each
\* with the function from its player names to their totals.
AddScore(team_player_scores, x) ==
    IF \E k \in 1..Len(team_player_scores) : team_player_scores[k].team = x.team
    THEN [k \in 1..Len(team_player_scores) |->
            IF team_player_scores[k].team = x.team
            THEN [team_player_scores[k] EXCEPT !.scores =
                    IF x.name \in DOMAIN @
                    THEN [@ EXCEPT ![x.name] = @ + x.score]
                    ELSE @ @@ (x.name :> x.score)]
            ELSE team_player_scores[k]]
    ELSE Append(team_player_scores, [team |-> x.team, scores |-> (x.name :> x.score)])

RECURSIVE AddScores(_, _)
AddScores(team_player_scores, xs) ==
    IF xs = <<>> THEN team_player_scores
    ELSE AddScores(AddScore(team_player_scores, Head(xs)), Tail(xs))

\* lines 227-237, from match_summary on: the list of {team: dict(scores)}
TeamPlayerScores(match_summary_) == AddScores(<<>>, PlayerScores(match_summary_))

\* lines 224-237 as one step
CalculatePlayerScoresForMatch ==
    /\ match_pc = "start"
    /\ \/ /\ EachMapRaises(match_data, match_stats, provider)
          /\ match_pc' = "raised"
          /\ UNCHANGED <<match_summary, scores>>
       \/ /\ ~EachMapRaises(match_data, match_stats, provider)
          /\ match_summary' =
                calculate_player_scores_for_each_map(match_data, match_stats, provider)
          /\ scores' = TeamPlayerScores(match_summary')
          /\ match_pc' = "done"
    /\ UNCHANGED <<match_data, match_stats, provider, report, provider_calls, response>>
    /\ UNCHANGED <<directory, store, hash_order, pc, gameweek_data, sorted_gameweeks,
                   idx, previous_gw_data, leaderboards, transfers, stages, result,
                   calls>>

----------------------------------------------------------------------------
(* process_match, lines 335-358.  The report is a string; it is held as the  *)
(* text it starts with and the parts that follow.                            *)

Part(kind, content) == [part |-> kind, content |-> content]

\* lines 325-333
generate_match_result(match_data_) ==
    <<match_data_.competition_name,
      match_data_.teams[1].name, match_data_.results.score.faction1,
      match_data_.teams[2].name, match_data_.results.score.faction2>>

\* a handler that returns what was written so far, with the error after it
ErrorReportKeepsPartial(report_so_far, e) ==
    LET hint == "Please ensure you're using a valid FACEIT match URL or match ID."
    IN  [prefix |-> IF report_so_far = <<>> THEN "Error processing match: "
                    ELSE report_so_far[1].content[1],
         body |-> report_so_far \o <<Part("message", e), Part("hint", hint)>>]

\* line 358: the local report is dropped
ErrorReport(report_so_far, e) ==
    [prefix |-> "Error processing match: ",
     body |-> <<Part("message", e),
                Part("hint", "Please ensure you're using a valid FACEIT match URL or match ID.")>>]

\* line 155 is reached: some player of the statistics is in no roster
NeedsPlayerDetails(match_data_, match_stats_) ==
    \E i \in 1..Len(match_stats_.rounds) : \E t \in 1..2 :
        \E k \in 1..Len(match_stats_.rounds[i].teams[t].players) :
            ~InRoster(match_stats_.rounds[i].teams[t].players[k].player_id, match_data_)

Outcome(report_, made, failed, scores_, match_summary_) ==
    [report |-> report_, made |-> made, failed |-> failed,
     scores |-> scores_, match_summary |-> match_summary_]

\* lines 337-358.  match_up and stats_up tell whether the calls of lines 345
\* and 346 are answered; first and second are the provider of player details
\* during the calls of lines 350 and 353.
process_match(match_data_, match_stats_, match_up, stats_up, first, second) ==
    IF ~match_up
    THEN Outcome(ErrorReport(<<>>, "match"), {"match"}, {"match"}, NoneValue, NoneValue)
    ELSE IF ~stats_up
    THEN Outcome(ErrorReport(<<>>, "match stats"), {"match", "match stats"},
                 {"match stats"}, NoneValue, NoneValue)
    ELSE LET made == {"match", "match stats"}
                     \cup (IF NeedsPlayerDetails(match_data_, match_stats_)
                           THEN {"player details"} ELSE {})
             result_part == <<Part("result", generate_match_result(match_data_))>>
         IN  IF EachMapRaises(match_data_, match_stats_, first)
             THEN Outcome(ErrorReport(result_part, "player details"), made,
                          {"player details"}, NoneValue, NoneValue)
             ELSE LET scores_ == TeamPlayerScores(
                          calculate_player_scores_for_each_map(match_data_, match_stats_, first))
                      with_table == Append(result_part, Part("table", scores_))
                  IN  IF EachMapRaises(match_data_, match_stats_, second)
                      THEN Outcome(ErrorReport(with_table, "player details"), made,
                                   {"player details"}, scores_, NoneValue)
                      ELSE LET match_summary_ == calculate_player_scores_for_each_map(
                                                     match_data_, match_stats_, second)
                           IN  Outcome([prefix |-> generate_match_result(match_data_)[1],
                                        body |-> Append(with_table,
                                                        Part("rounds", match_summary_))],
                                       made, {}, scores_, match_summary_)

\* process_match as one step; the provider may stop answering between the
\* calls of lines 350 and 353
ProcessMatch ==
    /\ match_pc = "start"
    /\ \E match_up, stats_up, still_up \in BOOLEAN :
          LET second == [provider EXCEPT !.up = provider.up /\ still_up]
              outcome == process_match(match_data, match_stats, match_up, stats_up,
                                       provider, second)
          IN  /\ report' = outcome.report
              /\ provider_calls' = [made |-> outcome.made, failed |-> outcome.failed]
              /\ scores' = outcome.scores
              /\ match_summary' = outcome.match_summary
    /\ match_pc' = "returned"
    /\ UNCHANGED <<match_data, match_stats, provider, response>>
    /\ UNCHANGED <<directory, store, hash_order, pc, gameweek_data, sorted_gameweeks,
                   idx, previous_gw_data, leaderboards, transfers, stages, result,
                   calls>>

----------------------------------------------------------------------------
(* get_match_summary_json, lines 790-922 *)

\* [x] * n, which is empty when n is not positive
RECURSIVE Repeat(_, _)
Repeat(x, n) == IF n <= 0 THEN <<>> ELSE <<x>> \o Repeat(x, n - 1)

\* lines 812-820: role_counts.get(role, 0)
RoleCount(players, role) ==
    Cardinality({k \in 1..Len(players) : players[k].role = role})

\* lines 813-818: the places of the players with role "-", in list order
RECURSIVE PlayersWithMissingRoles(_, _)
PlayersWithMissingRoles(players, k) ==
    IF k > Len(players) THEN <<>>
    ELSE IF players[k].role = "-"
         THEN <<k>> \o PlayersWithMissingRoles(players, k + 1)
         ELSE PlayersWithMissingRoles(players, k + 1)

\* a pass that asks for the five roles whatever the team already has
MissingRolesAllRequired(players) ==
    Repeat("Tank", 1) \o Repeat("Damage", 2) \o Repeat("Support", 2)

\* lines 823-827
MissingRoles(players) ==
    Repeat("Tank", 1 - RoleCount(players, "Tank"))
    \o Repeat("Damage", 2 - RoleCount(players, "Damage"))
    \o Repeat("Support", 2 - RoleCount(players, "Support"))

\* the player entries of a summary in the order the loops of 842-847 and of
\* 881-884 visit them
PlayersOfTeam(map_index, team) ==
    [k \in 1..Len(team.players) |->
        [map |-> map_index, team |-> team.name, player |-> team.players[k]]]

RECURSIVE PlayersFrom(_, _)
PlayersFrom(summary, o) ==
    IF o > Len(summary) THEN <<>>
    ELSE PlayersOfTeam(o, summary[o].teams[1]) \o PlayersOfTeam(o, summary[o].teams[2])
         \o PlayersFrom(summary, o + 1)

\* lines 841-851: the known roles of the player in the maps that differ from
\* map m (other_map == map_data compares the values), in the order met
RECURSIVE OtherRoles(_, _, _, _, _)
OtherRoles(entries, summary, m, team_name, player_name) ==
    IF entries = <<>> THEN <<>>
    ELSE LET e == Head(entries)
             rest == OtherRoles(Tail(entries), summary, m, team_name, player_name)
         IN  IF /\ summary[e.map] /= summary[m]
                /\ e.team = team_name
                /\ e.player.name = player_name
                /\ e.player.role /= "-"
             THEN <<e.player.role>> \o rest
             ELSE rest

\* max(counts, key=counts.get) over the dict that counts the roles of a
\* list: the role of the highest count, the first one inserted at a tie
MostPlayedRole(roles) ==
    LET Count(r) == Cardinality({i \in 1..Len(roles) : roles[i] = r})
        best == {i \in 1..Len(roles) : \A j \in 1..Len(roles) : Count(roles[j]) <= Count(roles[i])}
    IN  roles[CHOOSE i \in best : \A j \in best : i <= j]

InList(x, list) == \E i \in 1..Len(list) : list[i] = x

\* list.remove(x): the first x is taken out
RemoveFirst(list, x) ==
    LET at == CHOOSE i \in 1..Len(list) : list[i] = x /\ \A j \in 1..(i - 1) : list[j] /= x
    IN  SubSeq(list, 1, at - 1) \o SubSeq(list, at + 1, Len(list))

\* player['role'] = role, for player k of team t of map m
SetRole(summary, m, t, k, role) ==
    [summary EXCEPT ![m].teams[t].players[k].role = role]

\* lines 836-862: the players without role, one after the other
RECURSIVE InferPlayers(_, _, _, _, _)
InferPlayers(summary, m, t, waiting, missing_roles) ==
    IF waiting = <<>> THEN summary
    ELSE LET k == Head(waiting)
             team == summary[m].teams[t]
             roles == OtherRoles(PlayersFrom(summary, 1), summary, m, team.name,
                                 team.players[k].name)
             takes == roles /= <<>> /\ InList(MostPlayedRole(roles), missing_roles)
             still_missing == IF takes THEN RemoveFirst(missing_roles, MostPlayedRole(roles))
                              ELSE missing_roles
             pops == ~takes /\ still_missing /= <<>>
             role == IF takes THEN MostPlayedRole(roles)
                     ELSE IF pops THEN Head(still_missing) ELSE "-"
         IN  InferPlayers(SetRole(summary, m, t, k, role), m, t, Tail(waiting),
                          IF pops THEN Tail(still_missing) ELSE still_missing)

\* lines 810-862: one team of one map
InferTeam(summary, m, t) ==
    LET players == summary[m].teams[t].players
        players_with_missing_roles == PlayersWithMissingRoles(players, 1)
        missing_roles == MissingRoles(players)
    IN  IF missing_roles = <<>> \/ players_with_missing_roles = <<>> THEN summary
        ELSE IF Len(missing_roles) = 1 /\ Len(players_with_missing_roles) = 1
        THEN SetRole(summary, m, t, players_with_missing_roles[1], missing_roles[1])
        ELSE InferPlayers(summary, m, t, players_with_missing_roles, missing_roles)

\* lines 809-862: map after map, the first team before the second
RECURSIVE InferRoles(_, _)
InferRoles(summary, m) ==
    IF m > Len(summary) THEN summary
    ELSE InferRoles(InferTeam(InferTeam(summary, m, 1), m, 2), m + 1)

\* lines 881-896: the entries of the player in the team of that name
RECURSIVE EntriesOf(_, _, _)
EntriesOf(entries, team_name, player_name) ==
    IF entries = <<>> THEN <<>>
    ELSE LET e == Head(entries)
             rest == EntriesOf(Tail(entries), team_name, player_name)
         IN  IF e.team = team_name /\ e.player.name = player_name
             THEN <<e.player>> \o rest ELSE rest

RECURSIVE KnownRoles(_)
KnownRoles(players) ==
    IF players = <<>> THEN <<>>
    ELSE IF Head(players).role /= "-"
         THEN <<Head(players).role>> \o KnownRoles(Tail(players))
         ELSE KnownRoles(Tail(players))

RECURSIVE SumOf(_, _)
SumOf(players, stat) ==
    IF players = <<>> THEN 0 ELSE IntOf(Head(players)[stat]) + SumOf(Tail(players), stat)

\* lines 870-908: one player of the enhanced scores
EnhancedPlayer(summary, team_name, player_name, score) ==
    LET mine == EntriesOf(PlayersFrom(summary, 1), team_name, player_name)
        roles == KnownRoles(mine)
    IN  [score |-> score,
         role |-> IF roles /= <<>> THEN MostPlayedRole(roles) ELSE "-",
         stats |-> [damage |-> SumOf(mine, "damage"),
                    eliminations |-> SumOf(mine, "eliminations"),
                    deaths |-> SumOf(mine, "deaths"),
                    healing |-> SumOf(mine, "healing")]]

\* lines 865-910
EnhancedScores(scores_, summary) ==
    [i \in 1..Len(scores_) |->
        [team |-> scores_[i].team,
         players |-> [name \in DOMAIN scores_[i].scores |->
                        EnhancedPlayer(summary, scores_[i].team, name,
                                       scores_[i].scores[name])]]]

\* lines 921-922
ErrorResponse(e) == [status |-> 500, error |-> e]

\* lines 793-922; match_id and processed_at, which echo the request and the
\* clock, are left out of the response
get_match_summary_json(match_data_, match_stats_, match_up, stats_up, provider_) ==
    IF ~match_up THEN ErrorResponse("match")
    ELSE IF ~stats_up THEN ErrorResponse("match stats")
    ELSE IF EachMapRaises(match_data_, match_stats_, provider_)
    THEN ErrorResponse("player details")
    ELSE LET summary == calculate_player_scores_for_each_map(match_data_, match_stats_,
                                                             provider_)
             scores_ == TeamPlayerScores(summary)
             inferred == InferRoles(summary, 1)
         IN  [status |-> 200,
              match_result |-> generate_match_result(match_data_),
              scores |-> EnhancedScores(scores_, inferred),
              match_summary |-> inferred]

\* get_match_summary_json as one step
GetMatchSummaryJson ==
    /\ match_pc = "start"
    /\ \E match_up, stats_up \in BOOLEAN :
          response' = get_match_summary_json(match_data, match_stats, match_up, stats_up,
                                             provider)
    /\ match_pc' = "responded"
    /\ UNCHANGED <<match_data, match_stats, provider, match_summary, scores, report,
                   provider_calls>>
    /\ UNCHANGED <<directory, store, hash_order, pc, gameweek_data, sorted_gameweeks,
                   idx, previous_gw_data, leaderboards, transfers, stages, result,
                   calls>>

----------------------------------------------------------------------------
(* The matches the model is run on *)

\* the string the provider sends for a number
RECURSIVE Chars(_)
Chars(n) ==
    IF n < 10 THEN <<Digits[n + 1]>>
    ELSE Append(Chars(n \div 10), Digits[(n % 10) + 1])

Stat(role, eliminations, deaths, damage, healing) ==
    ("Role" :> role) @@ ("Eliminations" :> Chars(eliminations))
    @@ ("Deaths" :> Chars(deaths)) @@ ("Damage Dealt" :> Chars(damage))
    @@ ("Healing Done" :> Chars(healing))

Player(player_id, player_stats) == [player_id |-> player_id, player_stats |-> player_stats]

RosterEntry(player_id, name) == [player_id |-> player_id, game_player_name |-> name]

\* two teams; in the second match the teams bear one name and so do two players
MatchDataPool ==
    {[teams |-> <<[faction_id |-> "f1", name |-> "Alpha",
                   roster |-> <<RosterEntry("a", "Ann"), RosterEntry("b", "Bob")>>],
                  [faction_id |-> "f2", name |-> "Beta",
                   roster |-> <<RosterEntry("c", "Cy")>>]>>,
      maps |-> <<[game_map_id |-> "m1", name |-> "Busan"]>>,
      results |-> [score |-> [faction1 |-> 2, faction2 |-> 1]],
      competition_name |-> "OWCS"],
     [teams |-> <<[faction_id |-> "f1", name |-> "Alpha",
                   roster |-> <<RosterEntry("a", "Ann"), RosterEntry("b", "Bob")>>],
                  [faction_id |-> "f2", name |-> "Alpha",
                   roster |-> <<RosterEntry("c", "Ann")>>]>>,
      maps |-> <<[game_map_id |-> "m1", name |-> "Busan"]>>,
      results |-> [score |-> [faction1 |-> 2, faction2 |-> 1]],
      competition_name |-> "OWCS"]}

\* player d is in no roster: the provider is asked, and answers or fails
ProviderPool == {[up |-> TRUE, names |-> ("d" :> "Dee")],
                 [up |-> FALSE, names |-> ("d" :> "Dee")]}

RoundStats(winner, map) ==
    Field("Winner", winner) @@ ("OW2 Mode" :> "Control") @@ ("Map" :> map)
    @@ ("Score Summary" :> "2-1")

\* the factions of the two sides and the round statistics: a win, sides
\* swapped and no winner, a faction and a map that match_data does not know
SidesPool ==
    {[team_ids |-> <<"f1", "f2">>, round_stats |-> RoundStats({"f1"}, "m1")],
     [team_ids |-> <<"f2", "f1">>, round_stats |-> RoundStats({}, "m1")],
     [team_ids |-> <<"f1", "f9">>, round_stats |-> RoundStats({""}, "m9")]}

\* the players of the two sides
PlayersPool ==
    {<<<<Player("b", Stat("Damage", 10, 0, 1999, 2000)),
         Player("a", Stat("Tank", 9, 2, 4500, 0))>>,
       <<Player("c", Stat("Support", 2, 1, 6000, 4100))>>>>,
     <<<<Player("b", Stat("-", 0, 3, 0, 0))>>, <<>>>>,
     <<<<Player("a", Stat("Tank", 3, 0, 2000, 0))>>,
       <<Player("d", Stat("Damage", 5, 1, 0, 0)),
         Player("c", Stat("Damage", 1, 1, 4000, 1999))>>>>,
     <<<<Player("c", Stat("Support", 0, 0, 0, 8000))>>,
       <<Player("a", Stat("Tank", 9, 2, 4500, 0)),
         Player("b", Stat("Support", 4, 2, 100, 2100))>>>>}

RoundPool ==
    {[round_stats |-> sides.round_stats,
      teams |-> <<[team_id |-> sides.team_ids[1], players |-> players[1]],
                  [team_id |-> sides.team_ids[2], players |-> players[2]]>>] :
        sides \in SidesPool, players \in PlayersPool}

\* the statistics of one player, for calculate_score
EliminationsPool == {0, 1, 2, 3, 5, 9, 10}

DeathsPool == {0, 1, 2}

DamagePool == {0, 1999, 2000, 4500, 6000}

HealingPool == {0, 1999, 2000, 4100}

MatchStart(data, stats, players_api) ==
    /\ match_data = data
    /\ match_stats = stats
    /\ provider = players_api
    /\ match_pc = "start"
    /\ match_summary = NoneValue
    /\ scores = NoneValue
    /\ report = NoneValue
    /\ provider_calls = NoneValue
    /\ response = NoneValue
    /\ directory = "present"
    /\ store = <<>>
    /\ hash_order = PlayerOrder
    /\ pc = "idle"
    /\ gameweek_data = <<>>
    /\ sorted_gameweeks = <<>>
    /\ idx = 1
    /\ previous_gw_data = NoData
    /\ leaderboards = EmptyDict
    /\ transfers = EmptyDict
    /\ stages = EmptyDict
    /\ result = NoneValue
    /\ calls = EmptyDict

\* a match of up to MaxRounds maps
InitRounds ==
    \E data \in MatchDataPool : \E players_api \in ProviderPool :
        \E rounds \in SeqsUpTo(RoundPool, MaxRounds) :
            /\ rounds /= <<>>
            /\ MatchStart(data, [rounds |-> rounds], players_api)

\* a match of one map with one player, whose statistics vary
InitStats ==
    \E data \in MatchDataPool :
        \E e \in EliminationsPool, d \in DeathsPool, dmg \in DamagePool, h \in HealingPool :
            MatchStart(data,
                [rounds |-> <<[round_stats |-> RoundStats({"f1"}, "m1"),
                               teams |-> <<[team_id |-> "f1",
                                            players |-> <<Player("a", Stat("Tank", e, d, dmg, h))>>],
                                           [team_id |-> "f2", players |-> <<>>]>>]>>],
                [up |-> TRUE, names |-> ("d" :> "Dee")])

\* two teams, the first of five players
FiveMatch ==
    [teams |-> <<[faction_id |-> "f1", name |-> "Alpha",
                  roster |-> <<RosterEntry("a", "Ann"), RosterEntry("b", "Bob"),
                               RosterEntry("c", "Cy"), RosterEntry("d", "Dee"),
                               RosterEntry("e", "Eve")>>],
                 [faction_id |-> "f2", name |-> "Beta",
                  roster |-> <<RosterEntry("f", "Fay")>>]>>,
     maps |-> <<[game_map_id |-> "m1", name |-> "Busan"]>>,
     results |-> [score |-> [faction1 |-> 2, faction2 |-> 0]],
     competition_name |-> "OWCS"]

RolePool == {"Tank", "Damage", "Support", "-"}

\* a map on which the five players of the first team have the roles given
FiveRound(roles) ==
    [round_stats |-> RoundStats({"f1"}, "m1"),
     teams |-> <<[team_id |-> "f1",
                  players |-> <<Player("a", Stat(roles[1], 3, 1, 2000, 0)),
                                Player("b", Stat(roles[2], 4, 0, 4000, 0)),
                                Player("c", Stat(roles[3], 5, 2, 6000, 0)),
                                Player("d", Stat(roles[4], 1, 1, 0, 4100)),
                                Player("e", Stat(roles[5], 0, 0, 100, 8000))>>],
                 [team_id |-> "f2",
                  players |-> <<Player("f", Stat("-", 1, 3, 1999, 0))>>]>>]

\* what the other map says of the five players: every role known, none
\* known, roles that the first map may not need, one role played by all
OtherMapPool ==
    {<<"Tank", "Damage", "Damage", "Support", "Support">>,
     <<"-", "-", "-", "-", "-">>,
     <<"Support", "Tank", "-", "Damage", "-">>,
     <<"Damage", "Damage", "Damage", "Damage", "Damage">>}

\* a match of one or two maps in which roles are missing
InitRoles ==
    \E roles \in [1..5 -> RolePool] :
        \/ MatchStart(FiveMatch, [rounds |-> <<FiveRound(roles)>>],
                      [up |-> TRUE, names |-> ("d" :> "Dee")])
        \/ \E other \in OtherMapPool : \E first \in BOOLEAN :
              MatchStart(FiveMatch,
                         [rounds |-> IF first THEN <<FiveRound(roles), FiveRound(other)>>
                                     ELSE <<FiveRound(other), FiveRound(roles)>>],
                         [up |-> TRUE, names |-> ("d" :> "Dee")])

MatchInit == InitRounds \/ InitStats

MatchNext == CalculatePlayerScoresForMatch \/ ProcessMatch

MatchSpec == MatchInit /\ [][MatchNext]_vars

\* the match summary requested for matches in which roles are missing
SummaryInit == InitRoles

SummaryNext == GetMatchSummaryJson

SummarySpec == SummaryInit /\ [][SummaryNext]_vars

----------------------------------------------------------------------------
(* What the claims speak of *)

\* a record that carries both username and score
CarriesBoth(r) == "username" \in DOMAIN r /\ "score" \in DOMAIN r

ValidIndices(current) == {k \in 1..Len(current) : CarriesBoth(current[k])}

DistinctUsernames(current) ==
    \A j, k \in ValidIndices(current) :
        j /= k => current[j]["username"] /= current[k]["username"]

\* the gameweeks generate_leaderboard has been called for
Processed == DOMAIN leaderboards

Board(n) == leaderboards[n].data

\* the previous records that carry username u
PreviousOf(previous, u) ==
    {j \in 1..Len(previous) :
        "username" \in DOMAIN previous[j] /\ previous[j]["username"] = u}

\* the ways to match every valid current record with an entry of its own
\* that bears its username and its score
Links(current, board) ==
    {f \in [ValidIndices(current) -> 1..Len(board)] :
        /\ \A i, j \in ValidIndices(current) : i /= j => f[i] /= f[j]
        /\ \A i \in ValidIndices(current) :
              /\ board[f[i]].username = current[i]["username"]
              /\ board[f[i]].current_total_score = Round1(current[i]["score"])}

\* C1: when the valid current records have pairwise distinct usernames, the
\* leaderboard has one entry per valid record, and current_overall_position
\* and weekly_position each take every value of 1..N exactly once, whatever
\* the previous list is.
C1_RanksArePermutations ==
    \A n \in Processed :
        LET current == calls[n].current
            N == Cardinality(ValidIndices(current))
            board == Board(n)
        IN  DistinctUsernames(current) =>
              /\ Len(board) = N
              /\ {board[k].current_overall_position : k \in 1..Len(board)} = 1..N
              /\ {board[k].weekly_position : k \in 1..Len(board)} = 1..N

\* C2 as stated: the weekly_points of an entry is exactly the current score
\* minus the user's previous score when the username occurs in the previous
\* list (read weakly: minus the score of some previous record of that
\* username, nothing being asked when none of them has a score), and exactly
\* the current score otherwise.
C2_WeeklyPointsExactDelta ==
    \A n \in Processed : \A k \in 1..Len(Board(n)) :
        LET e == Board(n)[k]
            current == calls[n].current
            previous == calls[n].previous
            before == PreviousOf(previous, e.username)
            scored == {j \in before : "score" \in DOMAIN previous[j]}
        IN  \E i \in ValidIndices(current) :
              /\ current[i]["username"] = e.username
              /\ IF before = {}
                 THEN 10 * e.weekly_points = current[i]["score"]
                 ELSE \/ scored = {}
                      \/ \E j \in scored :
                            10 * e.weekly_points = current[i]["score"] - previous[j]["score"]

\* the score the code subtracts for username u: that of the last previous
\* record of u, 0 when that record has no score
PreviousScore(previous, u) ==
    LET before == PreviousOf(previous, u)
        last == CHOOSE j \in before : \A m \in before : m <= j
    IN  IF "score" \in DOMAIN previous[last] THEN previous[last]["score"] ELSE 0

ExpectedWeekly(current, previous, i) ==
    IF PreviousOf(previous, current[i]["username"]) = {}
    THEN Round1(current[i]["score"])
    ELSE Round1(current[i]["score"] - PreviousScore(previous, current[i]["username"]))

\* C2, amended: the entries carry, user by user, the weekly points
\* round(current - previous, 1) of the valid current records, previous being
\* the score of the last previous record of the username (0 when it has
\* none), and round(current, 1) for a username the previous list lacks.
C2_WeeklyPointsRoundedDelta ==
    \A n \in Processed :
        LET board == Board(n)
            current == calls[n].current
            previous == calls[n].previous
        IN  \A k \in 1..Len(board) :
              Cardinality({m \in 1..Len(board) :
                              /\ board[m].username = board[k].username
                              /\ board[m].weekly_points = board[k].weekly_points})
              <= Cardinality({i \in ValidIndices(current) :
                              /\ current[i]["username"] = board[k].username
                              /\ ExpectedWeekly(current, previous, i) = board[k].weekly_points})

\* C2, witness: a returning user whose delta -0.25 is reported as -0.2 next
\* to a new user whose 0.75 is reported as 0.8
C2_Witness ==
    \E n \in Processed : \E k, m \in 1..Len(Board(n)) :
        /\ Board(n)[k].previous_total_score = Some(8)
        /\ Board(n)[k].current_total_score = 5
        /\ Board(n)[k].weekly_points = -2
        /\ Board(n)[m].previous_total_score = Null
        /\ Board(n)[m].weekly_points = 8

\* C3: an entry whose user has a position in the previous ranking (a previous
\* record with that username and a score) has overall_position_change =
\* previous_overall_position - current_overall_position; any other entry has
\* no previous position and overall_position_change = 0.
C3_PositionChange ==
    \A n \in Processed : \A k \in 1..Len(Board(n)) :
        LET e == Board(n)[k]
            previous == calls[n].previous
            ranked == \E j \in PreviousOf(previous, e.username) :
                          "score" \in DOMAIN previous[j]
        IN  IF ranked
            THEN /\ e.previous_overall_position /= Null
                 /\ e.previous_overall_position[1] \in 1..Len(previous)
                 /\ e.overall_position_change =
                        e.previous_overall_position[1] - e.current_overall_position
            ELSE /\ e.previous_overall_position = Null
                 /\ e.overall_position_change = 0

\* C3, witness: one entry moved up, another has no previous position
C3_Witness ==
    \E n \in Processed : \E k, m \in 1..Len(Board(n)) :
        /\ Board(n)[k].overall_position_change > 0
        /\ Board(n)[m].previous_overall_position = Null

\* both rankings follow their metric and break ties by input order, under
\* the matching f of records with entries
RankingsFollow(current, board, f) ==
    \A i, j \in ValidIndices(current) :
        LET a == board[f[i]]
            b == board[f[j]]
        IN  /\ current[i]["score"] > current[j]["score"] =>
                  a.current_overall_position < b.current_overall_position
            /\ a.weekly_points > b.weekly_points => a.weekly_position < b.weekly_position
            /\ (current[i]["score"] = current[j]["score"] /\ i < j) =>
                  a.current_overall_position < b.current_overall_position
            /\ (a.weekly_points = b.weekly_points /\ i < j) =>
                  a.weekly_position < b.weekly_position

\* C4 as stated: for any two valid current records, whatever their usernames,
\* both rankings follow their metric and break ties by input order.
C4_RankingsFollowAnyRecords ==
    \A n \in Processed :
        LET current == calls[n].current
            board == Board(n)
        IN  Len(board) = Cardinality(ValidIndices(current)) =>
              \E f \in Links(current, board) : RankingsFollow(current, board, f)

\* C4, amended: the same, for current lists whose valid records have
\* pairwise distinct usernames.
C4_RankingsFollowDistinctUsers ==
    \A n \in Processed :
        LET current == calls[n].current
            board == Board(n)
        IN  (DistinctUsernames(current) /\ Len(board) = Cardinality(ValidIndices(current))) =>
              /\ Links(current, board) /= {}
              /\ \A f \in Links(current, board) : RankingsFollow(current, board, f)

\* C4, witness: two users with equal scores and equal weekly points, and a
\* third record
C4_Witness ==
    \E n \in Processed :
        LET current == calls[n].current
        IN  /\ DistinctUsernames(current)
            /\ Len(Board(n)) = 2
            /\ Board(n)[1].weekly_points = Board(n)[2].weekly_points
            /\ Board(n)[1].current_total_score = Board(n)[2].current_total_score
            /\ Board(n)[1].previous_total_score /= Null

\* C5: the leaderboard holds exactly one entry for each current record that
\* carries both username and score, and none for any other record.
C5_OneEntryPerValidRecord ==
    \A n \in Processed :
        LET current == calls[n].current
            board == Board(n)
        IN  \A u \in {"alice", "bob", "carol"} :
              Cardinality({k \in 1..Len(board) : board[k].username = u})
              = Cardinality({i \in ValidIndices(current) : current[i]["username"] = u})

\* C6: a record without username or without score never costs another record
\* its entry: in every processed gameweek, the one of the bad record and the
\* ones after it, every record that carries both has an entry.
C6_BadRecordStopsNothing ==
    \A n \in Processed :
        LET current == calls[n].current
        IN  \A i \in ValidIndices(current) :
              \E k \in 1..Len(Board(n)) : Board(n)[k].username = current[i]["username"]


\* a list entry that is a record (not null)
IsRecord(r) == r /= NoneRoster

\* a stored value that is a non-empty list of records
HoldsRecords(data) ==
    data.is_list /\ \E k \in 1..Len(data.items) : IsRecord(data.items[k])

RecordsOf(data) == SelectSeq(data.items, IsRecord)

\* the records of the most recent gameweek before position k of the sorted
\* order that holds records; NoData when there is none
LastProcessedBefore(k) ==
    LET earlier == {j \in 1..(k - 1) : HoldsRecords(sorted_gameweeks[j].data)}
    IN  IF earlier = {} THEN NoData
        ELSE RecordsOf(sorted_gameweeks[CHOOSE j \in earlier : \A m \in earlier : m <= j].data)

InSomeStage(name) ==
    \E st \in DOMAIN stages : \E m \in 1..Len(stages[st]) : stages[st][m] = name

\* C7: a gameweek whose value is not a non-empty list of records gets no
\* leaderboard, no transfers list and no stage membership and leaves the
\* previous state as it was; every other gameweek is compared against the
\* most recent earlier gameweek of the sorted order that was processed.
C7_PreviousIsLastProcessed ==
    /\ previous_gw_data = LastProcessedBefore(idx)
    /\ \A k \in 1..(idx - 1) :
          LET g == sorted_gameweeks[k]
          IN  IF HoldsRecords(g.data)
              THEN /\ g.name \in DOMAIN leaderboards
                   /\ g.name \in DOMAIN transfers
                   /\ InSomeStage(g.name)
                   /\ calls[g.name].current = RecordsOf(g.data)
                   /\ calls[g.name].previous = LastProcessedBefore(k)
              ELSE /\ g.name \notin DOMAIN leaderboards
                   /\ g.name \notin DOMAIN transfers
                   /\ ~InSomeStage(g.name)

\* C7, witness: the second of three gameweeks was skipped and the third was
\* compared against the first
C7_Witness ==
    /\ pc = "done"
    /\ Len(sorted_gameweeks) = 3
    /\ HoldsRecords(sorted_gameweeks[1].data)
    /\ ~HoldsRecords(sorted_gameweeks[2].data)
    /\ HoldsRecords(sorted_gameweeks[3].data)
    /\ sorted_gameweeks[1].data /= sorted_gameweeks[3].data
    /\ calls[sorted_gameweeks[3].name].previous = RecordsOf(sorted_gameweeks[1].data)
    /\ leaderboards[sorted_gameweeks[3].name].existing_users > 0

\* the name contains 'playoff', whatever the case of its letters
NamesPlayoff(name) ==
    \E k \in 0..(Len(name) - 7) :
        \A m \in 1..7 :
            \E c \in 1..26 :
                /\ LowerCase[c] = Playoff[m]
                /\ name[k + m] \in {LowerCase[c], UpperCase[c]}

IsDigitChar(c) == c \in {"0", "1", "2", "3", "4", "5", "6", "7", "8", "9"}

\* the decimal value of a string of digits, read from the left; 0 for none
RECURSIVE DecimalFrom(_, _)
DecimalFrom(digits, acc) ==
    IF digits = <<>> THEN acc
    ELSE DecimalFrom(Tail(digits),
                     10 * acc + (CHOOSE d \in 0..9 : Digits[d + 1] = Head(digits)))

\* the digits the name ends with
RECURSIVE TrailingDigits(_)
TrailingDigits(name) ==
    IF name = <<>> THEN <<>>
    ELSE IF ~IsDigitChar(name[Len(name)]) THEN <<>>
    ELSE Append(TrailingDigits(SubSeq(name, 1, Len(name) - 1)), name[Len(name)])

\* the numeric suffix of the name, 0 when it has none
NumericSuffix(name) == DecimalFrom(TrailingDigits(name), 0)

\* the number that all the digits of the name spell, 0 when it has none
AllDigitsNumber(name) == DecimalFrom(SelectSeq(name, IsDigitChar), 0)

IsFirstProcessed(k) ==
    /\ HoldsRecords(sorted_gameweeks[k].data)
    /\ \A j \in 1..(k - 1) : ~HoldsRecords(sorted_gameweeks[j].data)

ZeroTransferFields(p) ==
    /\ {"transferred_in", "transferred_out", "net_transfers"} \subseteq DOMAIN p
    /\ p.transferred_in = 0
    /\ p.transferred_out = 0
    /\ p.net_transfers = 0

\* C9: the first gameweek processed has existing_users = 0 and new_users =
\* the number of its records; each of its entries has no previous score, no
\* previous position, position change 0, no transfers and weekly_points equal
\* to its total score; each player of its transfers list has transferred_in,
\* transferred_out and net_transfers 0.
C9_FirstGameweek ==
    \A k \in 1..(idx - 1) :
        IsFirstProcessed(k) =>
            LET n == sorted_gameweeks[k].name
                board == leaderboards[n].data
            IN  /\ leaderboards[n].existing_users = 0
                /\ leaderboards[n].new_users = Len(RecordsOf(sorted_gameweeks[k].data))
                /\ \A m \in 1..Len(board) :
                      /\ board[m].previous_total_score = Null
                      /\ board[m].previous_overall_position = Null
                      /\ board[m].overall_position_change = 0
                      /\ board[m].transferred_in = <<>>
                      /\ board[m].transferred_out = <<>>
                      /\ board[m].weekly_points = board[m].current_total_score
                /\ \A m \in 1..Len(transfers[n]) : ZeroTransferFields(transfers[n][m])

\* C9, witness: the first gameweek processed comes after a skipped one and
\* has a record without entry, two entries and players in its transfers list
C9_Witness ==
    /\ pc = "done"
    /\ Len(sorted_gameweeks) >= 2
    /\ IsFirstProcessed(2)
    /\ Len(leaderboards[sorted_gameweeks[2].name].data) = 2
    /\ leaderboards[sorted_gameweeks[2].name].new_users = 2
    /\ Len(sorted_gameweeks[2].data.items) = 3
    /\ Len(transfers[sorted_gameweeks[2].name]) > 0

\* C10: "Unknown" is never a key of the transfer map calculate_transfers
\* returns and never the name of a player of the list
\* analyze_player_frequency returns, which is the gameweek's transfers list.
C10_NoUnknownPlayer ==
    /\ \A n \in DOMAIN calls : Unknown \notin DOMAIN calls[n].transfer_data
    /\ \A n \in DOMAIN transfers :
          \A k \in 1..Len(transfers[n]) : transfers[n][k].name /= Unknown

\* C10, witness: a record with a slot that reads "Unknown", a null slot and a
\* missing slot was compared with the user's previous record and counted
C10_Witness ==
    \E n \in DOMAIN calls :
        /\ DOMAIN calls[n].transfer_data /= {}
        /\ Len(transfers[n]) > 0
        /\ \E k \in 1..Len(calls[n].current) :
              LET r == calls[n].current[k]
              IN  /\ "username" \in DOMAIN r
                  /\ r["username"] \in PreviousUsernames(calls[n].previous)
                  /\ \E i \in 1..5 : SlotFields[i] \in DOMAIN r /\ r[SlotFields[i]] = Unknown
                  /\ \E i \in 1..5 : SlotFields[i] \notin DOMAIN r
        /\ \E k \in 1..Len(calls[n].previous) :
              LET q == calls[n].previous[k]
              IN  \E i \in 1..5 : SlotFields[i] \in DOMAIN q /\ q[SlotFields[i]] = None

\* the records the processed gameweeks were called with
RecordsSeen ==
    UNION {{calls[n].current[k] : k \in 1..Len(calls[n].current)}
           \cup {calls[n].previous[k] : k \in 1..Len(calls[n].previous)} :
           n \in DOMAIN calls}

\* the distinct values of the five slots of a record; a missing or null slot
\* contributes nothing, nor does the placeholder itself
SlotValues(r) ==
    {r[SlotFields[i]] : i \in {j \in 1..5 : SlotFields[j] \in DOMAIN r}} \ {None, Unknown}

\* C11: get_user_roster returns the empty set for a null record and, for any
\* record, the set of the distinct values of its five slots, without the
\* missing and the null ones: at most five elements, never "Unknown".
C11_RosterIsSlotValues ==
    /\ get_user_roster(NoneRoster) = {}
    /\ \A r \in RecordsSeen :
          /\ get_user_roster(r) = SlotValues(r)
          /\ Cardinality(get_user_roster(r)) <= 5
          /\ Unknown \notin get_user_roster(r)

\* what an entry shows for a slot of its record
SlotShown(r, f) == IF f \in DOMAIN r /\ r[f] /= None THEN r[f] ELSE Unknown

\* the current records an entry of the leaderboard can come from
RecordsOfEntry(current, e) ==
    {k \in ValidIndices(current) :
        /\ current[k]["username"] = e.username
        /\ \A i \in 1..5 : SlotShown(current[k], SlotFields[i]) = e[SlotFields[i]]}

\* the user's record of the previous gameweek (the last one, should the
\* username occur twice)
PreviousRecord(previous, u) ==
    previous[CHOOSE j \in PreviousOf(previous, u) : \A k \in PreviousOf(previous, u) : k <= j]

SeqSet(q) == {q[k] : k \in 1..Len(q)}

\* the entry e with C and P the roster sets of the user's two records
TransfersAreSetDifferences(e, C, P) ==
    LET in == SeqSet(e.transferred_in)
        out == SeqSet(e.transferred_out)
    IN  /\ in = C \ P
        /\ out = P \ C
        /\ Len(e.transferred_in) = Cardinality(in)
        /\ Len(e.transferred_out) = Cardinality(out)
        /\ in \cap out = {}
        /\ Cardinality(in) + Cardinality(C \cap P) = Cardinality(C)
        /\ Cardinality(C) = Cardinality(P) => Cardinality(in) = Cardinality(out)

\* C12: for a user present in the current and in the previous gameweek, with
\* C and P the get_user_roster sets of the two records, transferred_in is
\* C \ P and transferred_out is P \ C; the two are disjoint,
\* |transferred_in| + |C /\ P| = |C|, and |C| = |P| gives as many players in
\* as out.
C12_TransfersAreSetDifferences ==
    \A n \in Processed :
        \A m \in 1..Len(Board(n)) :
            LET e == Board(n)[m]
            IN  e.previous_total_score /= Null =>
                    \E k \in RecordsOfEntry(calls[n].current, e) :
                        TransfersAreSetDifferences(e,
                            get_user_roster(calls[n].current[k]),
                            get_user_roster(PreviousRecord(calls[n].previous, e.username)))

\* C12, witness: a user whose two rosters have the same size and share a
\* player, with players in and players out
C12_Witness ==
    \E n \in Processed :
        \E m \in 1..Len(Board(n)) :
            LET e == Board(n)[m]
            IN  /\ e.previous_total_score /= Null
                /\ Len(e.transferred_in) = 2
                /\ Len(e.transferred_out) = 2
                /\ \E k \in RecordsOfEntry(calls[n].current, e) :
                      get_user_roster(calls[n].current[k])
                          \cap get_user_roster(PreviousRecord(calls[n].previous, e.username))
                      /= {}

\* the current records whose username occurs in the previous list
Matched(current, previous) ==
    {k \in 1..Len(current) :
        /\ "username" \in DOMAIN current[k]
        /\ PreviousOf(previous, current[k]["username"]) /= {}}

\* the players the roster of matched record k gained, and those it lost
Gained(current, previous, k) ==
    get_user_roster(current[k])
        \ get_user_roster(PreviousRecord(previous, current[k]["username"]))

Lost(current, previous, k) ==
    get_user_roster(PreviousRecord(previous, current[k]["username"]))
        \ get_user_roster(current[k])

\* a value that names a player: neither empty nor the placeholder
NamesAPlayer(p) == p /= "" /\ p /= Unknown

\* the current list without the records whose username is absent from the
\* previous list
RECURSIVE KeepMatched(_, _)
KeepMatched(current, previous) ==
    IF current = <<>> THEN <<>>
    ELSE LET rest == KeepMatched(SubSeq(current, 1, Len(current) - 1), previous)
         IN  IF Len(current) \in Matched(current, previous)
             THEN Append(rest, current[Len(current)])
             ELSE rest

\* C13: calculate_transfers returns (empty map, 0) when either list is empty;
\* otherwise existing_users is the number of current records whose username
\* occurs in the previous list, a player's transferred_in (transferred_out)
\* is the number of those records whose roster gained (lost) the player, and
\* a record whose username is absent from the previous list changes nothing.
C13_TransferCounts ==
    \A n \in DOMAIN calls :
        LET current == calls[n].current
            previous == calls[n].previous
            transfer_data == calls[n].transfer_data
            matched == Matched(current, previous)
        IN  /\ calculate_transfers(current, <<>>)
                  = [transfer_stats |-> EmptyDict, existing_users |-> 0]
            /\ calculate_transfers(<<>>, current)
                  = [transfer_stats |-> EmptyDict, existing_users |-> 0]
            /\ previous /= <<>> =>
                  /\ leaderboards[n].existing_users = Cardinality(matched)
                  /\ \A p \in DOMAIN transfer_data :
                        /\ NamesAPlayer(p)
                        /\ transfer_data[p].transferred_in =
                              Cardinality({k \in matched : p \in Gained(current, previous, k)})
                        /\ transfer_data[p].transferred_out =
                              Cardinality({k \in matched : p \in Lost(current, previous, k)})
                  /\ \A k \in matched :
                        \A p \in Gained(current, previous, k) \cup Lost(current, previous, k) :
                            NamesAPlayer(p) => p \in DOMAIN transfer_data
                  /\ calculate_transfers(KeepMatched(current, previous), previous)
                        = [transfer_stats |-> transfer_data,
                           existing_users |-> leaderboards[n].existing_users]

\* C13, witness: of two current records one has a username the previous
\* list lacks, and the other gained a player and lost a player
C13_Witness ==
    \E n \in DOMAIN calls :
        /\ calls[n].previous /= <<>>
        /\ Len(calls[n].current) = 2
        /\ leaderboards[n].existing_users = 1
        /\ \E p, q \in DOMAIN calls[n].transfer_data :
              /\ calls[n].transfer_data[p].transferred_in = 1
              /\ calls[n].transfer_data[q].transferred_out = 1

\* the (record, slot) places of a roster list where player p stands; empty
\* records have no slots
Places(rosters, p) ==
    {pl \in (1..Len(rosters)) \X (1..5) :
        /\ DOMAIN rosters[pl[1]] /= {}
        /\ SlotShown(rosters[pl[1]], SlotFields[pl[2]]) = p}

SelectionCount(rosters, p) == Cardinality(Places(rosters, p))

\* the integer nearest to num / den, the even one at a tie
NearestInteger(num, den) ==
    LET Distance(t) == IF t * den >= num THEN t * den - num ELSE num - t * den
    IN  CHOOSE t \in {num \div den, num \div den + 1} :
            \/ 2 * Distance(t) < den
            \/ 2 * Distance(t) = den /\ t % 2 = 0

\* count / total x 100 rounded to one decimal, in tenths of a percent
PercentOf(count, total) == NearestInteger(1000 * count, total)

TransferFields ==
    {"transferred_in", "transferred_out", "net_transfers", "transfer_in_pct",
     "transfer_out_pct"}

\* player x of a frequency list carries the transfer fields the map
\* transfer_data and the user count existing_users give it
CarriesTransferFields(x, transfer_data, existing_users) ==
    /\ TransferFields \subseteq DOMAIN x
    /\ IF x.name \in DOMAIN transfer_data
       THEN LET t == transfer_data[x.name]
            IN  /\ x.transferred_in = t.transferred_in
                /\ x.transferred_out = t.transferred_out
                /\ x.net_transfers = t.transferred_in - t.transferred_out
                /\ x.transfer_in_pct =
                      IF existing_users = 0 THEN 0
                      ELSE PercentOf(t.transferred_in, existing_users)
                /\ x.transfer_out_pct =
                      IF existing_users = 0 THEN 0
                      ELSE PercentOf(t.transferred_out, existing_users)
       ELSE \A f \in TransferFields : x[f] = 0

ListedNames(list) == {list[k].name : k \in 1..Len(list)}

\* C14: given transfer data, every player of the frequency list carries the
\* five transfer fields: the counts of the map and the percentages
\* count / existing_users x 100 (0.0 when existing_users is 0) for a player
\* of the map, zeros for the others; the map leaves no player out.
C14_TransferFields ==
    \A n \in DOMAIN transfers :
        LET current == calls[n].current
            transfer_data == calls[n].transfer_data
            existing_users == leaderboards[n].existing_users
            unmatched == analyze_player_frequency(current, transfer_data, 0)
        IN  /\ \A k \in 1..Len(transfers[n]) :
                  CarriesTransferFields(transfers[n][k], transfer_data, existing_users)
            /\ \A k \in 1..Len(unmatched) :
                  CarriesTransferFields(unmatched[k], transfer_data, 0)
            /\ ListedNames(transfers[n])
                  = ListedNames(analyze_player_frequency(current, NoneValue, 0))
            /\ ListedNames(transfers[n])
                  = ListedNames(analyze_player_frequency(current, EmptyDict, 0))

\* C14, witness: of two current records one is matched; a listed player of
\* the map has a transfer_in_pct above zero and another listed player is
\* outside the map
C14_Witness ==
    \E n \in DOMAIN transfers :
        /\ Len(calls[n].current) = 2
        /\ leaderboards[n].existing_users = 1
        /\ \E j, k \in 1..Len(transfers[n]) :
              /\ transfers[n][j].name \in DOMAIN calls[n].transfer_data
              /\ transfers[n][j].transfer_in_pct = 1000
              /\ transfers[n][k].name \notin DOMAIN calls[n].transfer_data

\* C15: the selection percentage of a listed player is count / total_teams
\* x 100 rounded to one decimal, count being the number of slots of the list
\* that hold the player and total_teams the number of records passed in,
\* empty records and records without a valid player included.
C15_SelectionPercentage ==
    \A n \in DOMAIN transfers :
        \A k \in 1..Len(transfers[n]) :
            LET x == transfers[n][k]
            IN  /\ x.count = SelectionCount(calls[n].current, x.name)
                /\ x.percentage = PercentOf(x.count, Len(calls[n].current))

\* C15, witness: three records, one empty and one with a single player who
\* is also in another record: that player is at 66.7 percent, the players of
\* one record at 33.3
C15_Witness ==
    \E n \in DOMAIN transfers :
        /\ Len(calls[n].current) = 3
        /\ \E k \in 1..3 : calls[n].current[k] = EmptyDict
        /\ \E j, k \in 1..Len(transfers[n]) :
              /\ transfers[n][j].count = 2 /\ transfers[n][j].percentage = 667
              /\ transfers[n][k].count = 1 /\ transfers[n][k].percentage = 333

\* C16: the frequency list is in descending order of count and, at equal
\* count, in ascending order of name; no name occurs twice.
C16_SortedByCountThenName ==
    \A n \in DOMAIN transfers :
        \A j, k \in 1..Len(transfers[n]) :
            j < k =>
                LET a == transfers[n][j]
                    b == transfers[n][k]
                IN  /\ a.name /= b.name
                    /\ \/ a.count > b.count
                       \/ a.count = b.count /\ StrIndex(a.name) < StrIndex(b.name)

\* C16, witness: a list with two counts whose records name P3 before P2
C16_Witness ==
    \E n \in DOMAIN transfers :
        /\ \E j, k \in 1..Len(transfers[n]) :
              /\ j + 1 < k
              /\ transfers[n][j].count = 2
              /\ transfers[n][j + 1].count = 2
              /\ transfers[n][k].count = 1
        /\ \E r \in 1..Len(calls[n].current) :
              /\ SlotShown(calls[n].current[r], "dpsOne") = "P3"
              /\ SlotShown(calls[n].current[r], "dpsTwo") = "P2"
        /\ \E j \in 1..(Len(transfers[n]) - 1) :
              transfers[n][j].name = "P2" /\ transfers[n][j + 1].name = "P3"

\* the slot of the first place of player p, records in list order and slots
\* in the order of SlotFields
FirstSlot(rosters, p) ==
    LET first == CHOOSE pl \in Places(rosters, p) :
                     \A other \in Places(rosters, p) :
                         \/ pl[1] < other[1]
                         \/ pl[1] = other[1] /\ pl[2] <= other[2]
    IN  SlotFields[first[2]]

RoleOfSlot(f) ==
    CASE f = "tank" -> "tank"
      [] f \in {"dpsOne", "dpsTwo"} -> "dps"
      [] f \in {"supportOne", "supportTwo"} -> "support"

\* C17: the role of a listed player is the role of the slot of the player's
\* first appearance, records scanned in list order and slots in the order
\* tank, dpsOne, dpsTwo, supportOne, supportTwo; later appearances count.
C17_RoleOfFirstAppearance ==
    \A n \in DOMAIN transfers :
        \A k \in 1..Len(transfers[n]) :
            LET x == transfers[n][k]
            IN  /\ Places(calls[n].current, x.name) /= {}
                /\ x.role = RoleOfSlot(FirstSlot(calls[n].current, x.name))
                /\ x.count = Cardinality(Places(calls[n].current, x.name))

\* C17, witness: a player listed as tank with count 2 who is in a dps slot
\* of the second record, and a player who is tank and dps in one record
C17_Witness ==
    \E n \in DOMAIN transfers :
        /\ Len(calls[n].current) = 2
        /\ \E k \in 1..Len(transfers[n]) :
              /\ transfers[n][k].role = "tank"
              /\ transfers[n][k].count = 2
              /\ SlotShown(calls[n].current[1], "tank") = transfers[n][k].name
              /\ SlotShown(calls[n].current[2], "dpsTwo") = transfers[n][k].name
        /\ \E k \in 1..Len(transfers[n]) :
              /\ transfers[n][k].role = "tank"
              /\ SlotShown(calls[n].current[2], "tank") = transfers[n][k].name
              /\ SlotShown(calls[n].current[2], "dpsOne") = transfers[n][k].name

\* the places <<map, team, player>> of the player entries of match_summary
EntryPlaces ==
    UNION {{<<i, t, k>> : k \in 1..Len(match_summary[i].teams[t].players)} :
           i \in 1..Len(match_summary), t \in 1..2}

EntryAt(pl) == match_summary[pl[1]].teams[pl[2]].players[pl[3]]

TeamAt(pl) == match_summary[pl[1]].teams[pl[2]].name

\* floor(n / k) for n >= 0 and k > 0
Floor(n, k) == CHOOSE q \in 0..n : k * q <= n /\ n < k * (q + 1)

\* the score of the claim, in hundredths
ScoreFormula(eliminations, deaths, damage, healing) ==
    100 * Floor(eliminations, 3) - 100 * deaths
        + 50 * Floor(damage, 2000) + 50 * Floor(healing, 2000)

\* C18: for non-negative integers calculate_score returns
\* floor(eliminations/3) - deaths + 0.5 floor(damage/2000)
\* + 0.5 floor(healing/2000); twice the result is an integer; eliminations 9,
\* deaths 2, damage 4500, healing 0 give 2.0.
C18_ScoreFormula ==
    /\ calculate_score(9, 2, 4500, 0) = 200
    /\ match_pc = "done" =>
          \A pl \in EntryPlaces :
              LET x == EntryAt(pl)
              IN  /\ x.score = ScoreFormula(DecimalFrom(x.eliminations, 0),
                                             DecimalFrom(x.deaths, 0),
                                             DecimalFrom(x.damage, 0),
                                             DecimalFrom(x.healing, 0))
                  /\ (2 * x.score) % 100 = 0

\* C18, witness: 10 eliminations, 2 deaths, 4500 damage and 2000 healing
\* were scored 3 - 2 + 1.0 + 0.5 = 2.5
C18_Witness ==
    /\ match_pc = "done"
    /\ \E pl \in EntryPlaces :
          /\ EntryAt(pl).eliminations = <<"1", "0">>
          /\ EntryAt(pl).deaths = <<"2">>
          /\ EntryAt(pl).damage = <<"4", "5", "0", "0">>
          /\ EntryAt(pl).healing = <<"2", "0", "0", "0">>
          /\ EntryAt(pl).score = 250

\* the (team name, player name) pairs of the map rounds
PairsOfRounds == {<<TeamAt(pl), EntryAt(pl).name>> : pl \in EntryPlaces}

RECURSIVE SumOfScores(_)
SumOfScores(places) ==
    IF places = {} THEN 0
    ELSE LET pl == CHOOSE x \in places : TRUE
         IN  EntryAt(pl).score + SumOfScores(places \ {pl})

\* the sum of the per-round scores of a pair over the rounds it occurs in
TotalOfPair(pair) ==
    SumOfScores({pl \in EntryPlaces : <<TeamAt(pl), EntryAt(pl).name>> = pair})

\* C19: calculate_player_scores_for_match returns, for every (team name,
\* player name) pair of some map round, the sum of the pair's per-round
\* scores over the rounds it occurs in, no other pair, and each team once.
C19_MatchTotals ==
    match_pc = "done" =>
        /\ \A pair \in PairsOfRounds :
              \E r \in 1..Len(scores) :
                  /\ scores[r].team = pair[1]
                  /\ pair[2] \in DOMAIN scores[r].scores
                  /\ scores[r].scores[pair[2]] = TotalOfPair(pair)
        /\ \A r \in 1..Len(scores) :
              \A name \in DOMAIN scores[r].scores : <<scores[r].team, name>> \in PairsOfRounds
        /\ \A q, r \in 1..Len(scores) : q /= r => scores[q].team /= scores[r].team

\* C19, witness: a match of two maps whose sides swap, with a pair that
\* occurs in both maps
C19_Witness ==
    /\ match_pc = "done"
    /\ Len(match_summary) = 2
    /\ Len(scores) = 2
    /\ TeamAt(<<1, 1, 1>>) = TeamAt(<<2, 2, 1>>)
    /\ TeamAt(<<1, 1, 1>>) /= TeamAt(<<1, 2, 1>>)
    /\ \E pl, other \in EntryPlaces :
          /\ pl[1] = 1 /\ other[1] = 2
          /\ TeamAt(pl) = TeamAt(other)
          /\ EntryAt(pl).name = EntryAt(other).name
          /\ EntryAt(pl).score > 0 /\ EntryAt(other).score > 0

\* the list a run whose sets iterate in the given order makes of the names
InRunOrder(names, order) == ListInOrder(SeqSet(names), order)

\* C20: two runs over the same store give the same output; in particular
\* the names of every transferred_in and transferred_out list stand in the
\* order every other run gives them.
C20_SameOutputInEveryRun ==
    pc = "done" =>
        \A n \in DOMAIN result.leaderboards :
            \A k \in 1..Len(result.leaderboards[n].data) :
                LET e == result.leaderboards[n].data[k]
                IN  \A order \in HashOrders :
                        /\ e.transferred_in = InRunOrder(e.transferred_in, order)
                        /\ e.transferred_out = InRunOrder(e.transferred_out, order)

----------------------------------------------------------------------------
(* Error handling of process_all_gameweeks *)

HasThreeMappings(r) == {"leaderboards", "transfers", "stages"} \subseteq DOMAIN r

\* C21: process_all_gameweeks never lets a failure escape: whatever the store
\* holds, the function is either still running (loading, or inside its loop
\* with a next step to take) or has returned, and what it returns has the
\* three mappings leaderboards, transfers and stages.
C21_AlwaysReturnsThreeMappings ==
    /\ pc \in {"start", "loop", "done"}
    /\ pc = "loop" => idx \in 1..(Len(sorted_gameweeks) + 1)
    /\ pc = "done" => HasThreeMappings(result)

\* C21, witness: int() raised on a loaded name while sorting, and the handler
\* of lines 711-713 returned
C21_Witness ==
    /\ pc = "done"
    /\ \E k \in 1..Len(gameweek_data) : gameweek_data[k].name = GwSup2
    /\ "error" \in DOMAIN result
    /\ HasThreeMappings(result)

\* the store could not be read at all
StoreUnreachable == directory \in {"missing", "unreadable"}

\* C22: when the store directory is missing or unreadable the function
\* returns empty leaderboards, transfers and stages together with an error
\* field.
C22_StoreFailureReportsError ==
    pc = "done" /\ StoreUnreachable =>
        /\ HasThreeMappings(result)
        /\ result.leaderboards = EmptyDict
        /\ result.transfers = EmptyDict
        /\ result.stages = EmptyDict
        /\ "error" \in DOMAIN result

----------------------------------------------------------------------------
(* The snapshots are only read *)

\* the content the store holds for the gameweek called name: that of the
\* last file of that name that parses
StoredData(name) ==
    LET at == {j \in 1..Len(store) : store[j].name = name /\ store[j].data /= Corrupt}
    IN  store[CHOOSE j \in at : \A i \in at : i <= j].data

----------------------------------------------------------------------------
(* Provider failures in process_match *)

PartsOf(r) == [k \in 1..Len(r.body) |-> r.body[k].part]

\* C24: process_match never propagates a provider failure: it always returns
\* a report; when a call to the provider failed (match, match stats or player
\* details) the report starts with "Error processing match:" and holds the
\* error message and the hint only, no part of the report written before the
\* failure; when no call failed the report holds the result, the table of
\* the match and the tables of the maps.
C24_ProviderFailureIsReported ==
    match_pc = "returned" =>
        /\ "prefix" \in DOMAIN report
        /\ provider_calls.failed \subseteq provider_calls.made
        /\ provider_calls.failed /= {} =>
              /\ report.prefix = "Error processing match: "
              /\ PartsOf(report) = <<"message", "hint">>
              /\ report.body[1].content \in provider_calls.failed
        /\ provider_calls.failed = {} =>
              PartsOf(report) = <<"result", "table", "rounds">>

\* C24, witness: the scores of the match were computed (line 350), then the
\* provider failed on player details during the second pass (line 353), and
\* the error report was returned
C24_Witness ==
    /\ match_pc = "returned"
    /\ provider.up
    /\ provider_calls.failed = {"player details"}
    /\ Len(scores) > 0
    /\ report.prefix = "Error processing match: "

----------------------------------------------------------------------------
(* The counts reported with a leaderboard *)

\* C25: for every processed gameweek new_users >= 0, existing_users >= 0 and
\* new_users + existing_users = total_participants, the number of leaderboard
\* entries of that gameweek.
C25_CountsAreConsistent ==
    \A n \in DOMAIN leaderboards :
        /\ leaderboards[n].new_users >= 0
        /\ leaderboards[n].existing_users >= 0
        /\ leaderboards[n].total_participants = Len(leaderboards[n].data)
        /\ leaderboards[n].new_users + leaderboards[n].existing_users
              = leaderboards[n].total_participants

----------------------------------------------------------------------------
(* Upper bounds of the counts *)

\* every transfer count of the map is at most the existing-user count, and
\* no listed transfer percentage exceeds 100 (percentages count tenths)
TransferCountsBounded(n) ==
    /\ \A p \in DOMAIN calls[n].transfer_data :
          /\ calls[n].transfer_data[p].transferred_in <= leaderboards[n].existing_users
          /\ calls[n].transfer_data[p].transferred_out <= leaderboards[n].existing_users
    /\ \A k \in 1..Len(transfers[n]) :
          "transfer_in_pct" \in DOMAIN transfers[n][k] =>
              /\ transfers[n][k].transfer_in_pct <= 1000
              /\ transfers[n][k].transfer_out_pct <= 1000

\* every selection count is at most the number of records passed in, and no
\* selection percentage exceeds 100
SelectionCountsBounded(n) ==
    \A k \in 1..Len(transfers[n]) :
        /\ transfers[n][k].count <= TotalTeams(calls[n].current)
        /\ transfers[n][k].percentage <= 1000

\* C26: in every list of analyze_player_frequency each player's count is at
\* most total_teams, so the selection percentage never exceeds 100; each
\* player's transferred_in and transferred_out in the map of
\* calculate_transfers is at most the existing-user count, so the transfer
\* percentages never exceed 100.
C26_CountsBounded ==
    \A n \in Processed : SelectionCountsBounded(n) /\ TransferCountsBounded(n)

----------------------------------------------------------------------------
(* The transfer map and the transfers list *)

\* the players of the transfer map of gameweek n with a count above zero
TransferredPlayers(n) ==
    {p \in DOMAIN calls[n].transfer_data :
        \/ calls[n].transfer_data[p].transferred_in > 0
        \/ calls[n].transfer_data[p].transferred_out > 0}

\* the transfers list of gameweek n names p with the counts of the map
ListedWithCounts(n, p) ==
    \E k \in 1..Len(transfers[n]) :
        /\ transfers[n][k].name = p
        /\ transfers[n][k].transferred_in = calls[n].transfer_data[p].transferred_in
        /\ transfers[n][k].transferred_out = calls[n].transfer_data[p].transferred_out

----------------------------------------------------------------------------
(* calculate_transfers against the lists of generate_leaderboard *)

\* the count of kind ("transferred_in" or "transferred_out") the transfer map
\* of gameweek n holds for player p; a player outside the map has none
MapCount(n, p, kind) ==
    IF p \in DOMAIN calls[n].transfer_data THEN calls[n].transfer_data[p][kind] ELSE 0

\* the number of leaderboard entries of gameweek n whose list of that kind
\* contains p
EntriesNaming(n, p, kind) ==
    Cardinality({k \in 1..Len(Board(n)) : p \in SeqSet(Board(n)[k][kind])})

ReturningEntries(n) ==
    Cardinality({k \in 1..Len(Board(n)) : Board(n)[k].previous_total_score /= Null})

NonEmptyNames == {PlayerOrder[k] : k \in 1..Len(PlayerOrder)} \ {""}

TransferComputationsAgree(n, names) ==
    /\ \A p \in names :
          /\ MapCount(n, p, "transferred_in") = EntriesNaming(n, p, "transferred_in")
          /\ MapCount(n, p, "transferred_out") = EntriesNaming(n, p, "transferred_out")
    /\ leaderboards[n].existing_users = ReturningEntries(n)

\* C28: for a processed gameweek in which every current record carries
\* username and score and usernames are distinct, and for every non-empty
\* player name p, the transferred_in count of p in the map of
\* calculate_transfers equals the number of leaderboard entries whose
\* transferred_in list contains p, the same holds for transferred_out, and
\* the existing-user count equals the number of leaderboard entries whose
\* previous_total_score is not null.
C28_TransferComputationsAgree ==
    \A n \in Processed :
        LET current == calls[n].current
        IN  (\A i \in 1..Len(current) : CarriesBoth(current[i])) /\ DistinctUsernames(current)
            => TransferComputationsAgree(n, NonEmptyNames)

----------------------------------------------------------------------------
(* The three mappings grow together *)

\* the names of the gameweeks processed so far, in processing order
RECURSIVE ProcessedNames(_)
ProcessedNames(k) ==
    IF k = 0 THEN <<>>
    ELSE IF sorted_gameweeks[k].name \in DOMAIN leaderboards
         THEN Append(ProcessedNames(k - 1), sorted_gameweeks[k].name)
         ELSE ProcessedNames(k - 1)

StageNames == {"Stage 2 Playoffs", "Stage 2 Regular Season"}

InPlayoffs(name) == NamesPlayoff(name)

InRegularSeason(name) == ~NamesPlayoff(name)

\* C29: after any prefix of the sorted gameweeks the key set of leaderboards
\* equals the key set of transfers and the set of names in the stage lists;
\* every such name is in exactly one stage list, once ("Stage 2 Playoffs"
\* iff the name contains 'playoff' case-insensitively, otherwise "Stage 2
\* Regular Season"), and each stage list holds its names in processing
\* order.
C29_MappingsGrowTogether ==
    pc \in {"loop", "done"} =>
        LET names == ProcessedNames(IF idx - 1 <= Len(sorted_gameweeks)
                                    THEN idx - 1 ELSE Len(sorted_gameweeks))
        IN  /\ DOMAIN leaderboards = DOMAIN transfers
            /\ DOMAIN leaderboards = UNION {SeqSet(stages[st]) : st \in DOMAIN stages}
            /\ DOMAIN leaderboards = DOMAIN calls
            /\ DOMAIN stages \subseteq StageNames
            /\ \A j, k \in 1..Len(names) : j /= k => names[j] /= names[k]
            /\ \A st \in DOMAIN stages : stages[st] /= <<>>
            /\ "Stage 2 Playoffs" \in DOMAIN stages =>
                  stages["Stage 2 Playoffs"] = SelectSeq(names, InPlayoffs)
            /\ "Stage 2 Regular Season" \in DOMAIN stages =>
                  stages["Stage 2 Regular Season"] = SelectSeq(names, InRegularSeason)

\* C29, witness: a playoff gameweek and a regular gameweek are each stored in
\* two files; the regular one has been processed and the playoff still waits
C29_Witness ==
    /\ pc = "loop"
    /\ Len(store) = 4
    /\ store[1].name = store[3].name
    /\ store[2].name = store[4].name
    /\ Len(sorted_gameweeks) = 2
    /\ idx = 2
    /\ DOMAIN leaderboards = {Gw2}
    /\ DOMAIN stages = {"Stage 2 Regular Season"}
    /\ stages["Stage 2 Regular Season"] = <<Gw2>>

----------------------------------------------------------------------------
(* Role inference *)

\* team t of map m as calculate_player_scores_for_each_map gave it, before
\* the inference pass
TeamBefore(m, t) ==
    calculate_player_scores_for_each_map(match_data, match_stats, provider)[m].teams[t]

NumberWithRole(players, role) ==
    Cardinality({k \in 1..Len(players) : players[k].role = role})

\* five players, each Tank, Damage, Support or "-", the known roles within
\* 1 Tank, 2 Damage, 2 Support
InferableTeam(team) ==
    /\ Len(team.players) = 5
    /\ \A k \in 1..5 : team.players[k].role \in {"Tank", "Damage", "Support", "-"}
    /\ NumberWithRole(team.players, "Tank") <= 1
    /\ NumberWithRole(team.players, "Damage") <= 2
    /\ NumberWithRole(team.players, "Support") <= 2

\* C30: for every map and every team of exactly five players whose roles are
\* each Tank, Damage, Support or "-" and whose known roles do not exceed
\* 1 Tank, 2 Damage, 2 Support, after the inference pass no player of the
\* team has role "-", the team has exactly 1 Tank, 2 Damage and 2 Support,
\* and the players whose role was known keep it (and every player its name
\* and place).
C30_RolesInferred ==
    match_pc = "responded" /\ response.status = 200 =>
        \A m \in 1..Len(response.match_summary) : \A t \in 1..2 :
            LET before == TeamBefore(m, t).players
                after == response.match_summary[m].teams[t].players
            IN  InferableTeam(TeamBefore(m, t)) =>
                    /\ Len(after) = 5
                    /\ NumberWithRole(after, "-") = 0
                    /\ NumberWithRole(after, "Tank") = 1
                    /\ NumberWithRole(after, "Damage") = 2
                    /\ NumberWithRole(after, "Support") = 2
                    /\ \A k \in 1..5 :
                          /\ after[k].name = before[k].name
                          /\ before[k].role /= "-" => after[k].role = before[k].role

\* C30, witness: on the first of two maps the team had a Tank and four
\* players without role; one of the four took the role it has on the other
\* map, Support, out of turn, and the rest took what was left
C30_Witness ==
    /\ match_pc = "responded"
    /\ response.status = 200
    /\ Len(response.match_summary) = 2
    /\ LET before == TeamBefore(1, 1).players
           after == response.match_summary[1].teams[1].players
       IN  /\ InferableTeam(TeamBefore(1, 1))
           /\ NumberWithRole(before, "-") = 4
           /\ before[1].role = "Tank"
           /\ after[1].role = "Tank"
           /\ after[2].role = "Support"
           /\ after[3].role = "Damage"
           /\ NumberWithRole(after, "-") = 0

====
